---------------------------- MODULE Spec2Model ----------------------------
(***************************************************************************)
(* Model of the vendor-portal automation engine of instalacion-backend     *)
(* (src/src/services/installation.service.ts).                             *)
(*                                                                         *)
(* SpecSession : the cached portal session (getGeonetClient,               *)
(*               createGeonetClient, withGeonetRelogin) shared by          *)
(*               concurrent workflow calls.  JavaScript runs one           *)
(*               continuation at a time, so every action is the code       *)
(*               between two awaits.                                       *)
(* SpecRetry   : one call of withRetry, for every way its attempts can     *)
(*               settle.                                                   *)
(* SpecWorkflow: one call of a public workflow method                       *)
(*               (lookupPreinstallationActivation with                     *)
(*               submitGeonetActivation, editarInstalacionGeonet) against  *)
(*               a portal that may drop the session at any moment.         *)
(* Each specification leaves the variables of the others at rest.          *)
(***************************************************************************)
EXTENDS Integers, Sequences, FiniteSets, TLC

\* ------------------------------------------------------------------ bounds
NumCallers == 2
MaxLogins == 3
MaxTicks == 1
MaxControls == 2
MaxOptions == 2

\* --------------------------------------------------------- program constants
\* withGeonetRelogin: const attempts = 2
ReloginAttempts == 2
\* getGeonetClient: const maxAgeMs = 25 * 60 * 1000
maxAgeMs == 25 * 60 * 1000

Callers == 1..NumCallers
LoginIds == 1..MaxLogins
\* null for geonetClient / geonetClientPromise; clients are named after the
\* login that produced them
Null == 0

VARIABLES
  \* ---- InstallationService fields
  geonetClient,             \* cached logged-in client, or Null
  geonetClientPromise,      \* login whose promise is stored, or Null
  geonetClientCreatedAtMs,  \* Date.now() at the time the cache was written
  \* ---- environment
  now,                      \* Date.now()
  nticks,                   \* number of clock advances so far
  credsConfigured,          \* GEONET_USER / GEONET_PASS present in process.env
  login,                    \* login -> stage of that createGeonetClient call
  expired,                  \* clients whose session the portal has dropped
  \* ---- one withGeonetRelogin call per caller
  pc,                       \* caller -> position
  attempt,                  \* caller -> loop variable of withGeonetRelogin
  awaiting,                 \* caller -> login whose promise it awaits
  client,                   \* caller -> client handed to fn
  outcome,                  \* caller -> how the call ended
  \* ---- history (observation only)
  runs,                     \* caller -> number of times fn was run
  firstClient,              \* caller -> client of the first run
  firstResult,              \* caller -> result of the first run
  relogin,                  \* caller -> login it started with forceNew
  loginBy,                  \* login -> caller whose getGeonetClient started it
  forcedEver,               \* some caller invalidated / forced a refresh
  overlaps,                 \* pairs <<l, m>>: login m was started while l was in flight
  \* ---- one withRetry call
  callSite,                 \* which call of withRetry this is
  retryPc,                  \* "call" | "sleep" | "returned" | "thrown"
  retryAttempt,             \* loop variable `attempt`
  fnCalls,                  \* number of times fn() was invoked
  lastOutcome,              \* how the latest fn() settled
  lastError,                \* `lastError`: the error caught last
  waits,                    \* the waitMs of every sleep so far
  twin,                     \* the same call had fn returned every status it threw
  \* ---- one workflow call (a public method that uses withGeonetRelogin)
  op,                       \* which method: "activate" | "edit"
  wfPc,                     \* position in the method
  wfAttempt,                \* loop variable of withGeonetRelogin
  sessionAlive,             \* the portal still honours the client's session
  sent,                     \* requests issued so far: <<attempt, label>>
  wfResult,                 \* what the call returned or threw
  fnThrew,                  \* history: <<attempt, error, Len(sent)>> per run that threw
  dbRecord,                 \* the InstallationRequest row in the store
  params,                   \* the caller's parameters
  resolvedRequest,          \* lookupPreinstallationActivation: row found
  effectivePlanName,        \* lookupPreinstallationActivation: plan name used
  technicianId,             \* findOptionId(techSelect, technicianName)
  planId,                   \* findOptionId(planSelect, effectivePlanName)
  firstAvailableIp,         \* findFirstAvailableIp($)
  request,                  \* submitGeonetActivation: the row it read
  postedWith,               \* history: what each activation POST was built from
  \* ---- editarInstalacionGeonet
  csrfToken,                \* token scraped from the first GET of the edit page
  baseFields,               \* the field set the POST is built from
  baseResp,                 \* history: the response baseFields was extracted from
  postedBody,               \* history: the body of the POST
  contentUsed,              \* history: responses whose body was parsed and used
  \* ---- the answer to the workflow's POST and what the result says about it
  postAnswer,               \* history: the response to the latest POST
  wfReport,                 \* formErrors / missingRequiredFields of the result
  \* ---- the form snapshot
  formEl,                   \* the form element found in the page
  snapshot,                 \* the field set read from it
  snapshotBy,               \* which code read it: "inline", "extractFormFields"
  \* ---- editarInstalacionGeonet with updates: the merge into the form
  mergePc,                  \* "start", "tecnico", "merge", "posted", "again"
  givenUpdates,             \* params.updates as the caller passed it
  safeUpdates,              \* the same object, as the method has changed it
  freshFields,              \* baseFields after the reload, before the merge
  sentFields,               \* baseFields when the form is built
  sentForm,                 \* the pairs of the POST body, in order
  againFields,              \* sentFields after merging {} onto it
  \* ---- option resolution of one activation, and of single calls
  resolvePc,                \* "tecnico", "plan", "router", "zona", "ap", "post", ...
  optSelect,                \* the options of the select resolved last
  optName,                  \* the name it was resolved for ('' when none was given)
  chosen,                   \* role -> value resolved for it so far
  resolvePosts,             \* number of activation POSTs
  resolveError,             \* statusCode of the error thrown, or 0
  scored,                   \* one calculateSimilarityScore call and its result
  reordered,                \* findOptionId for a target and for its tokens reordered
  \* ---- one editarTicketWisphub call
  tkPc,                     \* position in the method
  tkGiven,                  \* params.updates as the caller passed it
  tkUpdates,                \* the same object, as the method has changed it
  hasFile,                  \* updates.archivoTicket is a Buffer
  tkRequests,               \* the requests made so far, in order
  patchStatus,              \* status of the PATCH response, 0 before it
  normalizedUpdates,        \* the picked fields
  current,                  \* data of the current ticket as fetched for the PUT
  optionChoices,            \* field -> choices read from OPTIONS
  putForm,                  \* the pairs of the PUT body, in order
  tkWarnings,               \* warnings pushed so far
  tkResult,                 \* what the call returned or threw
  \* ---- one createRequest or crearTicket call and the uploads directory
  fileOp,                   \* the method called
  filePc,                   \* position in the method
  uploads,                  \* files in the uploads directory
  unlinkFails,              \* files fs.unlinkSync throws for
  deleteCalls,              \* arguments of the deleteFile calls so far, in order
  requestData,              \* createRequest: field -> what data holds there
  savedFiles,               \* createRequest: savedFiles
  wisphubCall,              \* createRequest: how the Wisphub request went
  wisphubResult,            \* createRequest: what notifyWisphub returned
  stored,                   \* createRequest: the request was saved to the store
  pendingError,             \* the error on its way through catch or finally
  archivoTicket,            \* crearTicket: the kind of params.archivoTicket
  ctAttempt,                \* crearTicket: attempt of withGeonetRelogin
  tempSavedFileName,        \* crearTicket: the file staged in this attempt
  staged,                   \* crearTicket: every file staged so far
  bodyOutcome,              \* crearTicket: how the try block of the attempt ended
  fileResult,               \* what the call returned or threw
  \* ---- the SmartOLT cache (geonetImportScheduler.ts) and its callers
  smartoltCache,            \* the entry of the one key in use, 'odbs'
  loaderIs,                 \* the loader given to fromCache: fetchOdbs, or any
  configured,               \* baseUrl and SMARTOLT.apiKey are set
  odbNow,                   \* Date.now()
  odbTicks,                 \* times the clock has advanced
  loaderState,              \* loader call -> none, running, resolved, rejected
  loaderValue,              \* loader call -> what it resolved with
  lastUpstream,             \* how the latest upstream request of fetchOdbs ended
  odbPc,                    \* caller -> idle, waiting, done
  odbAwait,                 \* caller -> the loader call whose promise it was given
  odbGot                    \* caller -> what its fromCache call gave

cacheVars == <<geonetClient, geonetClientPromise, geonetClientCreatedAtMs>>
envVars == <<now, nticks, credsConfigured, expired>>
callVars == <<pc, attempt, awaiting, client, outcome>>
histVars == <<runs, firstClient, firstResult, relogin, loginBy, forcedEver,
              overlaps>>
sessVars == <<cacheVars, envVars, login, callVars, histVars>>

retryVars == <<callSite, retryPc, retryAttempt, fnCalls, lastOutcome, lastError, waits,
               twin>>

wfVars == <<op, wfPc, wfAttempt, sessionAlive, sent, wfResult, fnThrew, dbRecord,
            params>>
actVars == <<resolvedRequest, effectivePlanName, technicianId, planId,
             firstAvailableIp, request, postedWith>>

editVars == <<csrfToken, baseFields, baseResp, postedBody, contentUsed>>

postVars == <<postAnswer, wfReport>>

snapVars == <<formEl, snapshot, snapshotBy>>

mergeVars == <<mergePc, givenUpdates, safeUpdates, freshFields, sentFields, sentForm,
               againFields>>

resolveVars == <<resolvePc, optSelect, optName, chosen, resolvePosts, resolveError,
                 scored, reordered>>

ticketVars == <<tkPc, tkGiven, tkUpdates, hasFile, tkRequests, patchStatus, normalizedUpdates,
                current, optionChoices, putForm, tkWarnings, tkResult>>

fileVars == <<fileOp, filePc, uploads, unlinkFails, deleteCalls, requestData, savedFiles,
              wisphubCall, wisphubResult, stored, pendingError, archivoTicket, ctAttempt,
              tempSavedFileName, staged, bodyOutcome, fileResult>>

odbVars == <<smartoltCache, loaderIs, configured, odbNow, odbTicks, loaderState,
             loaderValue, lastUpstream, odbPc, odbAwait, odbGot>>

vars == <<sessVars, retryVars, wfVars, actVars, editVars, postVars, snapVars,
          mergeVars, resolveVars, ticketVars, fileVars, odbVars>>

\* ------------------------------------------------------------ createGeonetClient
LoginInFlight(l) == login[l] \in {"get", "post"}
LoginFailed(l) == login[l] = "failed"
LoginSettled(l) == login[l] = "ok" \/ LoginFailed(l)
InFlight == {l \in LoginIds : LoginInFlight(l)}
Started == {l \in LoginIds : login[l] # "none"}

\* the synchronous head of createGeonetClient: the credentials check
createGeonetClientStart == IF credsConfigured THEN "get" ELSE "failed"

\* GET login (withRetry, 6 attempts) settles, then the csrftoken cookie check:
\* the login goes on to its POST, or createGeonetClient throws (withRetry threw,
\* or no csrftoken cookie: statusCode 502)
LoginGetDone(l) ==
  /\ login[l] = "get"
  /\ \E r \in {"post", "failed"} :
       login' = [login EXCEPT ![l] = r]
  /\ UNCHANGED <<cacheVars, envVars, callVars, histVars>>

\* POST login (withRetry, 6 attempts) settles, then the sessionid cookie check:
\* the client is returned, or createGeonetClient throws (withRetry threw, or no
\* sessionid cookie: statusCode 401)
LoginPostDone(l) ==
  /\ login[l] = "post"
  /\ \E r \in {"ok", "failed"} :
       login' = [login EXCEPT ![l] = r]
  /\ UNCHANGED <<cacheVars, envVars, callVars, histVars>>

\* ------------------------------------------------------------ getGeonetClient
isFreshInclusive ==
  geonetClient # Null /\ now - geonetClientCreatedAtMs <= maxAgeMs
isFresh ==
  geonetClient # Null /\ now - geonetClientCreatedAtMs < maxAgeMs

ReturnsCached(forceNew) == ~forceNew /\ isFresh /\ geonetClient # Null

JoinsInFlightNever(forceNew) == FALSE
JoinsInFlight(forceNew) == ~forceNew /\ geonetClientPromise # Null

\* getGeonetClient(forceNew) up to its first await, run by caller p
Acquire(p, forceNew) ==
  IF ReturnsCached(forceNew)
  THEN /\ client' = [client EXCEPT ![p] = geonetClient]
       /\ pc' = [pc EXCEPT ![p] = "run"]
       /\ UNCHANGED <<cacheVars, login, awaiting, loginBy, overlaps>>
  ELSE IF JoinsInFlight(forceNew)
  THEN /\ awaiting' = [awaiting EXCEPT ![p] = geonetClientPromise]
       /\ pc' = [pc EXCEPT ![p] = "wait"]
       /\ UNCHANGED <<cacheVars, login, client, loginBy, overlaps>>
  ELSE /\ Started # LoginIds
       /\ LET l == CHOOSE x \in LoginIds \ Started :
                     \A y \in LoginIds \ Started : x <= y
          IN /\ login' = [login EXCEPT ![l] = createGeonetClientStart]
             /\ geonetClientPromise' = l
             /\ geonetClient' = IF forceNew THEN Null ELSE geonetClient
             /\ geonetClientCreatedAtMs' =
                  IF forceNew THEN 0 ELSE geonetClientCreatedAtMs
             /\ awaiting' = [awaiting EXCEPT ![p] = l]
             /\ loginBy' = [loginBy EXCEPT ![l] = p]
             /\ overlaps' = overlaps \cup {<<x, l>> : x \in InFlight}
             /\ pc' = [pc EXCEPT ![p] = "own"]
             /\ UNCHANGED client

\* line 239: `await this.geonetClientPromise` yields the client of a login
\* that succeeded and throws the error of one that failed
AwaitResolvesAlways(l) == TRUE
AwaitResolves(l) == login[l] = "ok"

\* lines 243-245: `finally { this.geonetClientPromise = null }`, after the
\* awaited login l settled either way
FinallyPromiseKept(l) == l
FinallyPromise(l) == Null

\* the caller that started the login resumes after `await this.geonetClientPromise`:
\* the cache is written on success, and the finally block clears the stored
\* promise whichever login it belongs to by now
OwnerResume(p) ==
  /\ pc[p] = "own"
  /\ LoginSettled(awaiting[p])
  /\ IF AwaitResolves(awaiting[p])
     THEN /\ geonetClient' = awaiting[p]
          /\ geonetClientCreatedAtMs' = now
          /\ geonetClientPromise' = FinallyPromise(awaiting[p])
          /\ client' = [client EXCEPT ![p] = awaiting[p]]
          /\ pc' = [pc EXCEPT ![p] = "run"]
          /\ UNCHANGED outcome
     ELSE /\ geonetClientPromise' = FinallyPromise(awaiting[p])
          /\ pc' = [pc EXCEPT ![p] = "done"]
          /\ outcome' = [outcome EXCEPT ![p] = "loginError"]
          /\ UNCHANGED <<geonetClient, geonetClientCreatedAtMs, client>>
  /\ awaiting' = [awaiting EXCEPT ![p] = Null]
  /\ UNCHANGED <<envVars, login, attempt, histVars>>

\* a caller that was handed the stored promise resumes
WaiterResume(p) ==
  /\ pc[p] = "wait"
  /\ LoginSettled(awaiting[p])
  /\ IF AwaitResolves(awaiting[p])
     THEN /\ client' = [client EXCEPT ![p] = awaiting[p]]
          /\ pc' = [pc EXCEPT ![p] = "run"]
          /\ UNCHANGED outcome
     ELSE /\ pc' = [pc EXCEPT ![p] = "done"]
          /\ outcome' = [outcome EXCEPT ![p] = "loginError"]
          /\ UNCHANGED client
  /\ awaiting' = [awaiting EXCEPT ![p] = Null]
  /\ UNCHANGED <<cacheVars, envVars, login, attempt, histVars>>

\* ---------------------------------------------------------- withGeonetRelogin
ReloginRetryAlways(isGeonetAuthError, att) == isGeonetAuthError
ReloginRetryAnyError(isGeonetAuthError, att) == att < ReloginAttempts
ReloginRetry(isGeonetAuthError, att) ==
  isGeonetAuthError /\ att < ReloginAttempts

\* what fn(client) can end with: "auth" is an error carrying isGeonetAuthError,
\* raised when the portal answers with its login page
FnResults(c) ==
  (IF c \in expired THEN {"auth"} ELSE {"ok"}) \cup {"other"}

\* a workflow call starts: attempt 1 calls getGeonetClient(false)
Call(p) ==
  /\ pc[p] = "idle"
  /\ Acquire(p, FALSE)
  /\ UNCHANGED <<envVars, attempt, outcome, runs, firstClient, firstResult,
                 relogin, forcedEver>>

\* fn(client) settles; on a session-expiry error of attempt 1 the catch block
\* invalidates the cache and the loop calls getGeonetClient(true), which runs up
\* to its first await in the same turn
FnReturn(p) ==
  /\ pc[p] = "run"
  /\ \E r \in FnResults(client[p]) :
       /\ runs' = [runs EXCEPT ![p] = @ + 1]
       /\ firstClient' = IF attempt[p] = 1
                         THEN [firstClient EXCEPT ![p] = client[p]]
                         ELSE firstClient
       /\ firstResult' = IF attempt[p] = 1
                         THEN [firstResult EXCEPT ![p] = r]
                         ELSE firstResult
       /\ IF r = "ok"
          THEN /\ pc' = [pc EXCEPT ![p] = "done"]
               /\ outcome' = [outcome EXCEPT ![p] = "ok"]
               /\ client' = [client EXCEPT ![p] = Null]
               /\ UNCHANGED <<cacheVars, login, attempt, awaiting,
                              relogin, loginBy, forcedEver, overlaps>>
          ELSE IF ReloginRetry(r = "auth", attempt[p])
          THEN /\ attempt' = [attempt EXCEPT ![p] = @ + 1]
               /\ Acquire(p, TRUE)
               /\ relogin' = [relogin EXCEPT ![p] = awaiting'[p]]
               /\ forcedEver' = TRUE
               /\ UNCHANGED outcome
          ELSE /\ pc' = [pc EXCEPT ![p] = "done"]
               /\ outcome' = [outcome EXCEPT ![p] = r]
               /\ client' = [client EXCEPT ![p] = Null]
               /\ UNCHANGED <<cacheVars, login, attempt, awaiting,
                              relogin, loginBy, forcedEver, overlaps>>
  /\ UNCHANGED envVars

\* ------------------------------------------------------------------ environment
\* the portal drops the session of a logged-in client that is cached, about to
\* be handed to a caller, or in a caller's hands
InUse(c) ==
  \/ geonetClient = c
  \/ \E p \in Callers : pc[p] \in {"own", "wait"} /\ awaiting[p] = c
  \/ \E p \in Callers : pc[p] = "run" /\ client[p] = c

ExpireSession(c) ==
  /\ login[c] = "ok"
  /\ c \notin expired
  /\ InUse(c)
  /\ expired' = expired \cup {c}
  /\ UNCHANGED <<cacheVars, now, nticks, credsConfigured, login, callVars, histVars>>

\* time passes; only the age of a cached client is ever read (isFresh), so the
\* clock is advanced only while a client is cached
Tick ==
  /\ nticks < MaxTicks
  /\ geonetClient # Null
  /\ \E d \in {maxAgeMs - 1, maxAgeMs} : now' = now + d
  /\ nticks' = nticks + 1
  /\ UNCHANGED <<cacheVars, credsConfigured, expired, login, callVars, histVars>>

\* ------------------------------------------------------------------ SpecSession
SessionInit ==
  /\ geonetClient = Null
  /\ geonetClientPromise = Null
  /\ geonetClientCreatedAtMs = 0
  /\ now = 0
  /\ nticks = 0
  /\ credsConfigured \in BOOLEAN
  /\ login = [l \in LoginIds |-> "none"]
  /\ expired = {}
  /\ pc = [p \in Callers |-> "idle"]
  /\ attempt = [p \in Callers |-> 1]
  /\ awaiting = [p \in Callers |-> Null]
  /\ client = [p \in Callers |-> Null]
  /\ outcome = [p \in Callers |-> "none"]
  /\ runs = [p \in Callers |-> 0]
  /\ firstClient = [p \in Callers |-> Null]
  /\ firstResult = [p \in Callers |-> "none"]
  /\ relogin = [p \in Callers |-> Null]
  /\ loginBy = [l \in LoginIds |-> Null]
  /\ forcedEver = FALSE
  /\ overlaps = {}

SessionRest == SessionInit /\ credsConfigured

\* ------------------------------------------------------------------ withRetry
\* the calls of withRetry: (fn, label) with the defaults attempts = 3,
\* baseDelayMs = 1000, and the calls of createGeonetClient ('GET login' and
\* 'POST login', both with 6, 2000)
CallSites == {"default", "login"}
attemptsOf(site) == IF site = "default" THEN 3 ELSE 6
baseDelayMsOf(site) == IF site = "default" THEN 1000 ELSE 2000

\* statuses fn() can settle with
Statuses == {200, 404, 500, 429, 502, 503, 504}
\* the retry-after header: absent, not a number (an HTTP date), or a number
RetryAfterHeaders ==
  {[k |-> "missing", n |-> 0], [k |-> "text", n |-> 0]}
    \cup {[k |-> "num", n |-> n] : n \in {-1, 0, 5, 20}}
NoHeader == [k |-> "missing", n |-> 0]

\* how one fn() call settles:
\*   "value"  fn resolved with a response (validateStatus accepted the status)
\*   "plain"  fn resolved with something that has no numeric status
\*   "error"  fn rejected with an error carrying a response
\*   "network" fn rejected with an error carrying no response
\* (the header is varied where it is read: on the retryable statuses)
Outcomes ==
  {[kind |-> k, status |-> st, retryAfter |-> h] :
      k \in {"value", "error"}, st \in {429, 502, 503, 504},
      h \in RetryAfterHeaders}
    \cup {[kind |-> k, status |-> st, retryAfter |-> NoHeader] :
            k \in {"value", "error"}, st \in Statuses}
    \cup {[kind |-> "plain", status |-> Null, retryAfter |-> NoHeader],
          [kind |-> "network", status |-> Null, retryAfter |-> NoHeader]}
NoOutcome == [kind |-> "none", status |-> Null, retryAfter |-> NoHeader]
\* an error object: whether it carries a response, and that response
NoError == [hasResponse |-> FALSE, status |-> Null, retryAfter |-> NoHeader]

isRetryableStatus(status) ==
  status = 429 \/ status = 502 \/ status = 503 \/ status = 504

parseRetryAfterMs(h) ==
  IF h.k = "missing" THEN 0
  ELSE IF h.k = "text" THEN 0
  ELSE IF h.n <= 0 THEN 0
  ELSE h.n * 1000

RECURSIVE Pow2(_)
Pow2(n) == IF n <= 0 THEN 1 ELSE 2 * Pow2(n - 1)

Max(a, b) == IF a >= b THEN a ELSE b

backoffMsFlat(baseDelayMs, att) == baseDelayMs
backoffMs(baseDelayMs, att) == baseDelayMs * Pow2(att - 1)

waitMsNoFloor(status, retryAfterMs, backoff) == Max(backoff, retryAfterMs)
waitMs(status, retryAfterMs, backoff) ==
  IF status = 429 THEN Max(15000, retryAfterMs) ELSE Max(backoff, retryAfterMs)

\* the error the catch block sees for an outcome of fn(): a retryable status
\* that was returned is wrapped into an error carrying the result as response
CaughtErrorUnwrapped(o) ==
  IF o.kind = "error"
  THEN [hasResponse |-> TRUE, status |-> o.status, retryAfter |-> o.retryAfter]
  ELSE [hasResponse |-> FALSE, status |-> Null, retryAfter |-> NoHeader]
CaughtError(o) ==
  IF o.kind \in {"value", "error"}
  THEN [hasResponse |-> TRUE, status |-> o.status, retryAfter |-> o.retryAfter]
  ELSE [hasResponse |-> FALSE, status |-> Null, retryAfter |-> NoHeader]

\* the try block returns the result
ReturnsResultWhateverStatus(o) == o.kind \in {"plain", "value"}
ReturnsResult(o) ==
  \/ o.kind = "plain"
  \/ o.kind = "value" /\ ~isRetryableStatus(o.status)

GivesUpOnlyOnTerminal(shouldRetry, att, attempts) == ~shouldRetry
GivesUp(shouldRetry, att, attempts) == ~shouldRetry \/ att = attempts

\* ---- the companion run: withRetry around a client that returns every status
\* as a normal result (validateStatus: () => true) where fn threw it
AsReturned(o) == IF o.kind = "error" THEN [o EXCEPT !.kind = "value"] ELSE o
NoResponse == [hasResponse |-> FALSE, status |-> Null, retryAfter |-> NoHeader]
ResponseOf(o) ==
  IF o.kind \in {"value", "error"}
  THEN [hasResponse |-> TRUE, status |-> o.status, retryAfter |-> o.retryAfter]
  ELSE NoResponse
TwinStart ==
  [pc |-> "call", attempt |-> 1, fnCalls |-> 0, waits |-> <<>>,
   lastError |-> NoError, result |-> NoResponse]
\* one iteration of the loop (lines 2731-2757) for the companion
TwinAttempt(t, o, site) ==
  IF t.pc # "call" THEN t
  ELSE IF ReturnsResult(o)
  THEN [t EXCEPT !.pc = "returned", !.fnCalls = @ + 1, !.result = ResponseOf(o)]
  ELSE LET err == CaughtError(o)
           status == IF err.hasResponse THEN err.status ELSE Null
           shouldRetry == isRetryableStatus(status)
       IN IF GivesUp(shouldRetry, t.attempt, attemptsOf(site))
          THEN [t EXCEPT !.pc = "thrown", !.fnCalls = @ + 1, !.lastError = err]
          ELSE [t EXCEPT !.pc = "sleep", !.fnCalls = @ + 1, !.lastError = err,
                         !.waits = Append(@,
                            waitMs(status, parseRetryAfterMs(err.retryAfter),
                                   backoffMs(baseDelayMsOf(site), t.attempt)))]
\* the companion's sleep ends
TwinWake(t, site) ==
  IF t.pc # "sleep" THEN t
  ELSE IF t.attempt < attemptsOf(site)
  THEN [t EXCEPT !.attempt = @ + 1, !.pc = "call"]
  ELSE [t EXCEPT !.pc = "thrown"]

\* one iteration of the loop up to its sleep: fn() settles with o
RetryAttempt(o) ==
  /\ retryPc = "call"
  /\ fnCalls' = fnCalls + 1
  /\ lastOutcome' = o
  /\ IF ReturnsResult(o)
     THEN /\ retryPc' = "returned"
          /\ UNCHANGED <<lastError, waits>>
     ELSE LET err == CaughtError(o)
              status == IF err.hasResponse THEN err.status ELSE Null
              shouldRetry == isRetryableStatus(status)
          IN /\ lastError' = err
             /\ IF GivesUp(shouldRetry, retryAttempt, attemptsOf(callSite))
                THEN /\ retryPc' = "thrown"
                     /\ UNCHANGED waits
                ELSE /\ retryPc' = "sleep"
                     /\ waits' = Append(waits,
                          waitMs(status, parseRetryAfterMs(err.retryAfter),
                                 backoffMs(baseDelayMsOf(callSite), retryAttempt)))
  /\ twin' = TwinAttempt(twin, AsReturned(o), callSite)
  /\ UNCHANGED <<callSite, retryAttempt>>

\* the sleep ends: the next iteration, or `throw lastError` after the loop.
\* (lastOutcome only observes the attempt that has just settled.)
RetryWake ==
  /\ retryPc = "sleep"
  /\ IF retryAttempt < attemptsOf(callSite)
     THEN /\ retryAttempt' = retryAttempt + 1
          /\ retryPc' = "call"
     ELSE /\ retryPc' = "thrown"
          /\ UNCHANGED retryAttempt
  /\ lastOutcome' = NoOutcome
  /\ twin' = TwinWake(twin, callSite)
  /\ UNCHANGED <<callSite, fnCalls, lastError, waits>>

RetryRest ==
  /\ callSite = "default"
  /\ retryPc = "call"
  /\ retryAttempt = 1
  /\ fnCalls = 0
  /\ lastOutcome = NoOutcome
  /\ lastError = NoError
  /\ waits = <<>>
  /\ twin = TwinStart

RetryInit ==
  /\ callSite \in CallSites
  /\ retryPc = "call"
  /\ retryAttempt = 1
  /\ fnCalls = 0
  /\ lastOutcome = NoOutcome
  /\ lastError = NoError
  /\ waits = <<>>
  /\ twin = TwinStart

RetryStep ==
  \/ \E o \in Outcomes : RetryAttempt(o)
  \/ RetryWake

\* ------------------------------------------------------------ portal responses
\* A response as the code reads it: status, whether the location header
\* includes '/accounts/login', whether data is a string, which of the
\* substrings the login heuristic looks for occur in the (lower-cased) body,
\* and which page the body is.
LoginMarks == {"/accounts/login", "name=\"login\"", "name=\"password\"",
               "csrfmiddlewaretoken", "password"}
LoginPageResp ==
  [status |-> 200, locLogin |-> FALSE, isString |-> TRUE, marks |-> LoginMarks,
   page |-> "login"]
LoginRedirectResp ==
  [status |-> 302, locLogin |-> TRUE, isString |-> TRUE, marks |-> {},
   page |-> "empty"]
PageResp(page) ==
  [status |-> 200, locLogin |-> FALSE, isString |-> TRUE,
   marks |-> {"csrfmiddlewaretoken"}, page |-> page]
ErrorResp ==
  [status |-> 500, locLogin |-> FALSE, isString |-> TRUE, marks |-> {},
   page |-> "error"]
RedirectResp ==
  [status |-> 302, locLogin |-> FALSE, isString |-> TRUE, marks |-> {},
   page |-> "empty"]
\* a POST answered by the form rendered again with its error list: status 200,
\* a body with '<form', .errorlist items and required inputs left empty (the
\* activation form also has its usr-password input)
FormErrorResp(page) ==
  [status |-> 200, locLogin |-> FALSE, isString |-> TRUE,
   marks |-> {"csrfmiddlewaretoken", "password", "<form", "errorlist",
              "required"},
   page |-> page]
Thrown == [status |-> Null, locLogin |-> FALSE, isString |-> FALSE, marks |-> {},
           page |-> "thrown"]

\* what withRetry(() => client.get(...)) settles with: GETs follow redirects, so
\* a dropped session shows as the login page itself; withRetry may also throw
PortalGet(page) ==
  (IF sessionAlive THEN {PageResp(page), ErrorResp} ELSE {LoginPageResp})
    \cup {Thrown}
\* POSTs are sent with maxRedirects: 0
PortalPost(page) ==
  (IF sessionAlive
   THEN {RedirectResp, PageResp(page), FormErrorResp(page), ErrorResp}
   ELSE {LoginRedirectResp})
    \cup {Thrown}

isGeonetLoginResponseAnyPasswordForm(response) ==
  \/ /\ response.status \in {301, 302, 303, 307, 308}
     /\ response.locLogin
  \/ /\ response.isString
     /\ \/ /\ "/accounts/login" \in response.marks
           /\ \/ "name=\"login\"" \in response.marks
              \/ "name=\"password\"" \in response.marks
        \/ /\ "csrfmiddlewaretoken" \in response.marks
           /\ "password" \in response.marks
isGeonetLoginResponse(response) ==
  \/ /\ response.status \in {301, 302, 303, 307, 308}
     /\ response.locLogin
  \/ /\ response.isString
     /\ \/ /\ "/accounts/login" \in response.marks
           /\ \/ "name=\"login\"" \in response.marks
              \/ "name=\"password\"" \in response.marks
        \/ /\ "id=\"login\"" \in response.marks
           /\ "csrfmiddlewaretoken" \in response.marks
           /\ "password" \in response.marks

\* errors: statusCode (Null when the error carries none) and isGeonetAuthError
Err(code, auth) == [kind |-> "error", statusCode |-> code, auth |-> auth]
NoErr == [kind |-> "none", statusCode |-> Null, auth |-> FALSE]
Returned(status) == [kind |-> "ok", statusCode |-> status, auth |-> FALSE]

throwIfRetryableStatus(response) ==
  IF response.status \in {429, 502, 503, 504} THEN Err(Null, FALSE) ELSE NoErr

throwIfGeonetAuthRequired(response) ==
  IF isGeonetLoginResponse(response) THEN Err(401, TRUE) ELSE NoErr

\* the checks that follow a GET: withRetry threw, throwIfRetryableStatus,
\* throwIfGeonetAuthRequired, then the 2xx test (statusCode 502)
CheckedGet(response) ==
  IF response = Thrown THEN Err(Null, FALSE)
  ELSE IF throwIfRetryableStatus(response) # NoErr
  THEN throwIfRetryableStatus(response)
  ELSE IF throwIfGeonetAuthRequired(response) # NoErr
  THEN throwIfGeonetAuthRequired(response)
  ELSE IF response.status < 200 \/ response.status >= 300 THEN Err(502, FALSE)
  ELSE NoErr

\* the checks that follow a POST
CheckedPost(response) ==
  IF response = Thrown THEN Err(Null, FALSE)
  ELSE IF throwIfRetryableStatus(response) # NoErr
  THEN throwIfRetryableStatus(response)
  ELSE throwIfGeonetAuthRequired(response)

NoResp == [status |-> Null, locLogin |-> FALSE, isString |-> FALSE, marks |-> {},
           page |-> "none"]

\* parseDjangoFormErrors: the texts of the .errorlist items and the names of
\* the required controls whose value is empty
parseDjangoFormErrors(response) ==
  [errorTexts |-> IF "errorlist" \in response.marks
                  THEN {"Este campo es obligatorio."} ELSE {},
   missingRequired |-> IF "required" \in response.marks
                       THEN {"cliente-mac_cpe"} ELSE {}]
\* the result's formErrors and missingRequiredFields; both undefined when
\* the method's result has no such fields or the body has no '<form'
NoReport == [reported |-> FALSE, formErrors |-> {}, missingRequiredFields |-> {}]
ReportOf(response) ==
  IF response.isString /\ "<form" \in response.marks
  THEN [reported |-> TRUE,
        formErrors |-> parseDjangoFormErrors(response).errorTexts,
        missingRequiredFields |-> parseDjangoFormErrors(response).missingRequired]
  ELSE NoReport
PostRest ==
  /\ postAnswer = NoResp
  /\ wfReport = NoReport

\* ------------------------------------------------- withGeonetRelogin, one call
\* fn threw e: the catch block of withGeonetRelogin
WfThrow(e) ==
  /\ fnThrew' = Append(fnThrew, <<wfAttempt, e, Len(sent')>>)
  /\ IF ReloginRetry(e.auth, wfAttempt)
       THEN /\ wfAttempt' = wfAttempt + 1
            /\ wfPc' = "getClient"
            /\ UNCHANGED wfResult
       ELSE /\ wfPc' = "done"
            /\ wfResult' = e
            /\ UNCHANGED wfAttempt

\* the method threw before withGeonetRelogin, or fn returned
WfEnd(r) ==
  /\ wfPc' = "done"
  /\ wfResult' = r
  /\ UNCHANGED <<wfAttempt, fnThrew>>

WfGoto(next) ==
  /\ wfPc' = next
  /\ UNCHANGED <<wfAttempt, wfResult, fnThrew>>

Send(label) == sent' = Append(sent, <<wfAttempt, label>>)
SentInRun(label) == \E i \in 1..Len(sent) : sent[i] = <<wfAttempt, label>>
SentEver(label) == \E i \in 1..Len(sent) : sent[i][2] = label

\* `await this.getGeonetClient(forceNew)` settles: the cached client (attempt 1
\* only), a client fresh from createGeonetClient, or createGeonetClient's error
WfGetClient ==
  /\ wfPc = "getClient"
  /\ \/ /\ wfAttempt = 1
        /\ WfGoto("fn")
        /\ UNCHANGED <<sessionAlive, sent>>
     \/ /\ Send("login")
        /\ \/ /\ sessionAlive' = TRUE
              /\ WfGoto("fn")
           \/ /\ WfEnd(Err(401, FALSE))
              /\ UNCHANGED sessionAlive
  /\ UNCHANGED <<op, dbRecord, params, actVars, editVars>>

\* the portal drops the session
WfExpireSession ==
  /\ wfPc # "done"
  /\ sessionAlive
  /\ sessionAlive' = FALSE
  /\ UNCHANGED <<op, wfPc, wfAttempt, sent, wfResult, fnThrew, dbRecord, params, actVars,
                 editVars>>

\* another request of the API edits or deletes the row meanwhile
DbChange ==
  /\ op = "activate"
  /\ wfPc # "done"
  /\ dbRecord.exists
  /\ \/ dbRecord' = [dbRecord EXCEPT !.date = ~@]
     \/ dbRecord' = [exists |-> FALSE, plan |-> "", date |-> FALSE]
  /\ UNCHANGED <<op, wfPc, wfAttempt, sessionAlive, sent, wfResult, fnThrew, params, actVars,
                 editVars>>

\* ------------------------------------------- lookupPreinstallationActivation
Unset == "unset"
UnreadRow == [read |-> FALSE, exists |-> FALSE, date |-> FALSE]

\* line 408: `resolvedRequestId === undefined || !resolvedRequest`
NotResolvedIgnoresRecord(idResolved, found) == ~idResolved
NotResolved(idResolved, found) == ~idResolved \/ ~found

\* lines 393, 401-406: the record's plan, when it has one, replaces planName
planNameForCallerFirst(found, recordPlan, planName) ==
  IF planName # "" THEN planName ELSE IF found THEN recordPlan ELSE planName
planNameFor(found, recordPlan, planName) ==
  IF found /\ recordPlan # "" THEN recordPlan ELSE planName

\* lines 392-418: resolve the row and the plan name, before any portal call
ActResolveRecord ==
  /\ op = "activate"
  /\ wfPc = "start"
  /\ LET found == dbRecord.exists /\ (params.idGiven \/ params.nameMatches)
         idResolved == params.idGiven \/ (dbRecord.exists /\ params.nameMatches)
         plan == planNameFor(found, dbRecord.plan, params.planName)
     IN /\ resolvedRequest' = found
        /\ effectivePlanName' = plan
        /\ IF NotResolved(idResolved, found) THEN WfEnd(Err(404, FALSE))
           ELSE IF plan = "" THEN WfEnd(Err(400, FALSE))
           ELSE WfGoto("getClient")
  /\ UNCHANGED <<op, sessionAlive, sent, dbRecord, params, technicianId, planId,
                 firstAvailableIp, request, postedWith>>

\* fn starts (again): its locals are fresh
ActFnStart ==
  /\ op = "activate"
  /\ wfPc = "fn"
  /\ technicianId' = Unset
  /\ planId' = Unset
  /\ firstAvailableIp' = Unset
  /\ request' = UnreadRow
  /\ WfGoto("list")
  /\ UNCHANGED <<op, sessionAlive, sent, dbRecord, params, resolvedRequest,
                 effectivePlanName, postedWith>>

\* GET preinstalaciones and the search for the client's activation link
ActGetList ==
  /\ op = "activate"
  /\ wfPc = "list"
  /\ Send("GET preinstalaciones")
  /\ \E response \in PortalGet("list") : \E linkFound \in BOOLEAN :
       IF CheckedGet(response) # NoErr THEN WfThrow(CheckedGet(response))
       ELSE IF ~linkFound THEN WfThrow(Err(404, FALSE))
       ELSE WfGoto("page")
  /\ UNCHANGED <<op, sessionAlive, dbRecord, params, actVars>>

MissingOption(id) == id = ""
NoAvailableIpNever(ip) == FALSE
NoAvailableIp(ip) == ip = ""

\* GET activacion, the technician / plan / IP it yields, and the head of
\* submitGeonetActivation up to its first await
ActGetActivation ==
  /\ op = "activate"
  /\ wfPc = "page"
  /\ Send("GET activacion")
  /\ \E response \in PortalGet("activation") :
     \E tech \in {"", "t7"} : \E plan \in {"", "p3"} : \E ip \in {"", "10.0.0.9"} :
       IF CheckedGet(response) # NoErr
       THEN /\ WfThrow(CheckedGet(response))
            /\ UNCHANGED <<technicianId, planId, firstAvailableIp>>
       ELSE /\ technicianId' = tech
            /\ planId' = plan
            /\ firstAvailableIp' = ip
            /\ IF MissingOption(tech) THEN WfThrow(Err(404, FALSE))
               ELSE IF MissingOption(plan) THEN WfThrow(Err(404, FALSE))
               ELSE IF NoAvailableIp(ip) THEN WfThrow(Err(404, FALSE))
               ELSE WfGoto("readRow")
  /\ UNCHANGED <<op, sessionAlive, dbRecord, params, resolvedRequest,
                 effectivePlanName, request, postedWith>>

MissingAgreedDateNever(row) == FALSE
MissingAgreedDate(row) == ~row.date

\* submitGeonetActivation: repo.findOne and the agreedInstallationDate check
ActReadRow ==
  /\ op = "activate"
  /\ wfPc = "readRow"
  /\ request' = [read |-> TRUE, exists |-> dbRecord.exists, date |-> dbRecord.date]
  /\ UNCHANGED sent
  /\ IF ~dbRecord.exists THEN WfThrow(Err(404, FALSE))
     ELSE IF MissingAgreedDate(dbRecord) THEN WfThrow(Err(400, FALSE))
     ELSE WfGoto("csrf")
  /\ UNCHANGED <<op, sessionAlive, dbRecord, params, resolvedRequest,
                 effectivePlanName, technicianId, planId, firstAvailableIp,
                 postedWith>>

\* GET activacion (csrf) and the csrfmiddlewaretoken input
ActGetCsrf ==
  /\ op = "activate"
  /\ wfPc = "csrf"
  /\ Send("GET activacion (csrf)")
  /\ \E response \in PortalGet("activation") : \E tk \in {"", "tok"} :
       IF CheckedGet(response) # NoErr THEN WfThrow(CheckedGet(response))
       ELSE IF tk = "" THEN WfThrow(Err(502, FALSE))
       ELSE WfGoto("post")
  /\ UNCHANGED <<op, sessionAlive, dbRecord, params, actVars>>

\* POST activacion with the form built from the row and the resolved values
ActPost ==
  /\ op = "activate"
  /\ wfPc = "post"
  /\ Send("POST activacion")
  /\ postedWith' = postedWith \cup
       {[tecnico |-> technicianId, plan_internet |-> planId,
         ip |-> firstAvailableIp, row |-> request]}
  /\ \E response \in PortalPost("activation") :
       /\ postAnswer' = response
       /\ IF CheckedPost(response) # NoErr THEN WfThrow(CheckedPost(response))
          ELSE WfEnd(Returned(response.status))
  /\ wfReport' = NoReport
  /\ UNCHANGED <<op, sessionAlive, dbRecord, params, resolvedRequest,
                 effectivePlanName, technicianId, planId, firstAvailableIp, request>>

\* ---------------------------------------------------- editarInstalacionGeonet
\* A form as the code reads it: its input, textarea and select elements in
\* document order.  An attribute that is absent reads as Undefined; a name
\* that is absent or empty is "".
Undefined == "undefined"
Input(name, type, checked, value) ==
  [tag |-> "input", name |-> name, type |-> type, checked |-> checked,
   value |-> value, options |-> <<>>]
Textarea(name, text) ==
  [tag |-> "textarea", name |-> name, type |-> "", checked |-> FALSE,
   value |-> text, options |-> <<>>]
Option(value, text, selected) ==
  [value |-> value, text |-> text, selected |-> selected]
Select(name, options) ==
  [tag |-> "select", name |-> name, type |-> "", checked |-> FALSE,
   value |-> Undefined, options |-> options]

\* `x ?? ''` and `x || ''`
OrEmpty(v) == IF v = Undefined THEN "" ELSE v
\* `!value`
Falsy(v) == v = Undefined \/ v = ""
\* String.prototype.trim, on the values of this model: only " " has white space
Trim(v) == IF v = " " THEN "" ELSE v
\* String.prototype.toLowerCase, on the type attributes of this model
ToLowerCase(t) == IF t = "SUBMIT" THEN "submit" ELSE t
\* t.includes('---------'), on the option texts of this model
IncludesDashes(t) == t = "---------"

\* lines 2233-2240 (and 962-969): the inputs that are passed over
SkippedInput(c) ==
  \/ c.name = ""
  \/ ToLowerCase(OrEmpty(c.type)) \in {"submit", "button", "file"}
  \/ /\ ToLowerCase(OrEmpty(c.type)) \in {"checkbox", "radio"}
     /\ ~c.checked

MinOf(S) == CHOOSE i \in S : \A j \in S : i <= j
MaxOf(S) == CHOOSE i \in S : \A j \in S : i >= j

\* lines 2259-2274 (and 983-998): the value of option[selected], else of the
\* first option with a value whose text is empty or has no row of dashes
SelectValue(options) ==
  LET sel == {i \in DOMAIN options : options[i].selected}
      selected == IF sel = {} THEN Undefined ELSE options[MinOf(sel)].value
      valid == {i \in DOMAIN options :
                  /\ Trim(OrEmpty(options[i].value)) # ""
                  /\ \/ Trim(OrEmpty(options[i].text)) = ""
                     \/ ~IncludesDashes(Trim(OrEmpty(options[i].text)))}
  IN IF ~Falsy(selected) THEN selected
     ELSE IF valid = {} THEN Undefined
     ELSE options[MinOf(valid)].value

\* the three passes: every input, then every textarea, then every select
InPassOrder(form) ==
  SelectSeq(form, LAMBDA c : c.tag = "input")
    \o SelectSeq(form, LAMBDA c : c.tag = "textarea")
    \o SelectSeq(form, LAMBDA c : c.tag = "select")

\* A JavaScript object with string keys: its keys in insertion order (the
\* order of Object.keys, Object.entries and for-in) and their values.
EmptyObject == [keys |-> <<>>, val |-> <<>>]
Has(obj, k) == k \in DOMAIN obj.val
\* obj[k] = v
SetField(obj, k, v) ==
  [keys |-> IF Has(obj, k) THEN obj.keys ELSE Append(obj.keys, k),
   val |-> [x \in DOMAIN obj.val \cup {k} |-> IF x = k THEN v ELSE obj.val[x]]]

\* the object left by assignments fields[name] = value made in order
RECURSIVE AssignedFrom(_, _, _)
AssignedFrom(obj, writes, i) ==
  IF i > Len(writes) THEN obj
  ELSE AssignedFrom(SetField(obj, writes[i][1], writes[i][2]), writes, i + 1)
Assigned(writes) == AssignedFrom(EmptyObject, writes, 1)

\* lines 954-1002: the snapshot editarInstalacionGeonet takes of the page it
\* fetched first; empty values are kept
inlineValue(c) ==
  IF c.tag = "input" THEN OrEmpty(c.value)
  ELSE IF c.tag = "textarea" THEN OrEmpty(c.value)
  ELSE IF Falsy(SelectValue(c.options)) THEN "" ELSE SelectValue(c.options)
inlineWrites(c) ==
  IF c.tag = "input" THEN ~SkippedInput(c) ELSE c.name # ""
inlineSnapshot(form) ==
  LET kept == SelectSeq(InPassOrder(form), inlineWrites)
  IN Assigned([i \in DOMAIN kept |-> <<kept[i].name, inlineValue(kept[i])>>])

\* extractFormFields: values are trimmed and a field is written only when its
\* value is not empty
extractValue(c) ==
  IF c.tag = "input" THEN Trim(OrEmpty(c.value))
  ELSE IF c.tag = "textarea" THEN Trim(OrEmpty(c.value))
  ELSE SelectValue(c.options)
extractWrites(c) ==
  /\ IF c.tag = "input" THEN ~SkippedInput(c) ELSE c.name # ""
  /\ ~Falsy(extractValue(c))
extractFormFields(form) ==
  LET kept == SelectSeq(InPassOrder(form), extractWrites)
  IN Assigned([i \in DOMAIN kept |-> <<kept[i].name, extractValue(kept[i])>>])

\* $('input[name="csrfmiddlewaretoken"]').attr('value') || ''
csrfOf(form) ==
  LET at == {i \in DOMAIN form : /\ form[i].tag = "input"
                                 /\ form[i].name = "csrfmiddlewaretoken"}
  IN IF at = {} THEN "" ELSE OrEmpty(form[MinOf(at)].value)

\* The forms of the portal's pages.  Every fetch of a page carries the
\* anti-forgery token the portal issued for it.
Tokens == {"tokA", "tokB"}
EditForm(tk) ==
  <<Input("csrfmiddlewaretoken", "hidden", FALSE, tk),
    Select("cliente-tecnico", <<Option("", "---------", FALSE),
                                Option("5", "Juan Perez", TRUE)>>),
    Textarea("cliente-comentarios", ""),
    Input("", "submit", FALSE, "Guardar")>>
LoginForm(tk) ==
  <<Input("csrfmiddlewaretoken", "hidden", FALSE, tk),
    Input("login", "text", FALSE, Undefined),
    Input("password", "password", FALSE, Undefined),
    Input("next", "hidden", FALSE, "/panel/")>>
NoForm == <<>>
FormOf(response, tk) ==
  IF response.page = "edit" THEN EditForm(tk)
  ELSE IF response.page = "login" THEN LoginForm(tk)
  ELSE NoForm


\* lines 900-906: the parameter check, before withGeonetRelogin
EditValidate ==
  /\ op = "edit"
  /\ wfPc = "start"
  /\ IF ~params.idsGiven THEN WfEnd(Err(400, FALSE)) ELSE WfGoto("getClient")
  /\ UNCHANGED <<op, sessionAlive, sent, dbRecord, params, actVars, editVars>>

\* fn starts (again): its locals are fresh
EditFnStart ==
  /\ op = "edit"
  /\ wfPc = "fn"
  /\ csrfToken' = ""
  /\ baseFields' = EmptyObject
  /\ baseResp' = NoResp
  /\ WfGoto("editGet")
  /\ UNCHANGED <<op, sessionAlive, sent, dbRecord, params, actVars, postedBody,
                 contentUsed>>

\* GET editar instalacion (csrf): checks, token, inline snapshot
EditGetForm ==
  /\ op = "edit"
  /\ wfPc = "editGet"
  /\ Send("GET editar instalacion (csrf)")
  /\ \E response \in PortalGet("edit") : \E tk \in Tokens \cup {""} :
       IF CheckedGet(response) # NoErr
       THEN /\ WfThrow(CheckedGet(response))
            /\ UNCHANGED <<csrfToken, baseFields, baseResp, contentUsed>>
       ELSE IF tk = ""
       THEN /\ WfThrow(Err(502, FALSE))
            /\ UNCHANGED <<csrfToken, baseFields, baseResp, contentUsed>>
       ELSE /\ csrfToken' = tk
            /\ baseFields' = inlineSnapshot(FormOf(response, tk))
            /\ baseResp' = response
            /\ contentUsed' = contentUsed \cup {response}
            /\ WfGoto("editReload")
  /\ UNCHANGED <<op, sessionAlive, dbRecord, params, actVars, postedBody>>

\* line 1048: the condition under which the reloaded page replaces baseFields
UsesFreshPage(freshPage) ==
  /\ freshPage # Thrown
  /\ freshPage.status >= 200 /\ freshPage.status < 300
  /\ freshPage.isString

\* ------------------------------------------------------------------- strings
\* Where the code looks inside a string, the string is the sequence of its
\* characters.  A character is a one-letter string; an accented letter is
\* written as its base letter followed by "'" ("o'" is o with acute accent).
UpperCase == <<"A", "B", "C", "D", "E", "F", "G", "H", "I", "J", "K", "L", "M",
               "N", "O", "P", "Q", "R", "S", "T", "U", "V", "W", "X", "Y", "Z">>
LowerCase == <<"a", "b", "c", "d", "e", "f", "g", "h", "i", "j", "k", "l", "m",
               "n", "o", "p", "q", "r", "s", "t", "u", "v", "w", "x", "y", "z">>
Accented == <<"a'", "e'", "i'", "o'", "u'", "n'", "A'", "E'", "I'", "O'", "U'", "N'">>
Unaccented == <<"a", "e", "i", "o", "u", "n", "A", "E", "I", "O", "U", "N">>
DigitChars == {"0", "1", "2", "3", "4", "5", "6", "7", "8", "9"}
\* \s
IsSpace(c) == c \in {" ", "\t", "\n"}

\* what a character becomes: itself when the table has no entry for it
MapChar(c, table) == IF c \in DOMAIN table THEN table[c] ELSE c
LowerOf ==
  [c \in {UpperCase[i] : i \in DOMAIN UpperCase} \cup {Accented[j] : j \in 7..12} |->
     IF \E i \in DOMAIN UpperCase : UpperCase[i] = c
     THEN LowerCase[CHOOSE i \in DOMAIN UpperCase : UpperCase[i] = c]
     ELSE Accented[(CHOOSE j \in 7..12 : Accented[j] = c) - 6]]
UnaccentedOf ==
  [c \in {Accented[j] : j \in DOMAIN Accented} |->
     Unaccented[CHOOSE j \in DOMAIN Accented : Accented[j] = c]]
\* String.prototype.toLowerCase
toLowerCase(s) == [i \in DOMAIN s |-> MapChar(s[i], LowerOf)] \o <<>>
\* .normalize('NFD').replace(/[\u0300-\u036f]/g, ''): the accent is dropped
stripAccents(s) == [i \in DOMAIN s |-> MapChar(s[i], UnaccentedOf)] \o <<>>
\* .replace(/\s+/g, ' '): the first character of each run of spaces stays, as ' '
collapseSpaces(s) ==
  LET kept == SelectSeq([i \in DOMAIN s |-> i],
                        LAMBDA i : ~IsSpace(s[i]) \/ i = 1 \/ ~IsSpace(s[i - 1]))
  IN [n \in DOMAIN kept |-> IF IsSpace(s[kept[n]]) THEN " " ELSE s[kept[n]]] \o <<>>
\* String.prototype.trim
trimStart(s) ==
  IF \A i \in DOMAIN s : IsSpace(s[i]) THEN <<>>
  ELSE SubSeq(s, MinOf({i \in DOMAIN s : ~IsSpace(s[i])}), Len(s))
trimEnd(s) ==
  IF \A i \in DOMAIN s : IsSpace(s[i]) THEN <<>>
  ELSE SubSeq(s, 1, MaxOf({i \in DOMAIN s : ~IsSpace(s[i])}))
trim(s) == trimEnd(trimStart(s))
\* the characters i..j of s, nothing when there are none
Sub(s, i, j) == IF i < 1 \/ j > Len(s) \/ i > j THEN <<>> ELSE SubSeq(s, i, j)
\* String.prototype.includes
includes(s, t) ==
  \E i \in 0..Len(s) : i + Len(t) <= Len(s) /\ SubSeq(s, i + 1, i + Len(t)) = t
\* the maximal runs of the characters of s that are In
Runs(s, In(_)) ==
  {SubSeq(s, i, MinOf({j \in i..Len(s) : j = Len(s) \/ ~In(s[j + 1])})) :
     i \in {k \in DOMAIN s : In(s[k]) /\ (k = 1 \/ ~In(s[k - 1]))}}
\* s.split(' ').filter(Boolean), as a set: the maximal runs without ' '
splitTokens(s) == Runs(s, LAMBDA c : c # " ")
\* value.match(/\d+/g) || [], as a set: the maximal runs of digits
extractNumericTokens(s) == Runs(s, LAMBDA c : c \in DigitChars)
\* .replace(/[-_\s]+/g, '')
stripSeparators(s) == SelectSeq(s, LAMBDA c : ~(c \in {"-", "_"} \/ IsSpace(c)))

\* normalizeText, lines 2022-2029
normalizeText(s) == trim(collapseSpaces(stripAccents(toLowerCase(s))))

\* ------------------------------------------------- calculateSimilarityScore
\* A score is a double.  The scores the code computes are fractions num / den
\* of two small integers, plus 0.4 for some; `ulp` is 1 when the double sum
\* fl(num / den) + 0.4 lies one unit in the last place above the double
\* nearest to the exact sum, which happens (for den <= 20) exactly for the
\* fractions of RoundsUp, e.g. 0.2 + 0.4 = 0.6000000000000001 > 0.6 = 3 / 5.
Frac(n, d) == [num |-> n, den |-> d, ulp |-> 0]
Greater(a, b) ==
  \/ a.num * b.den > b.num * a.den
  \/ a.num * b.den = b.num * a.den /\ a.ulp > b.ulp
AtLeast(a, b) == ~Greater(b, a)
RoundsUp == {<<1, 3>>, <<1, 5>>, <<4, 15>>, <<9, 20>>, <<11, 20>>}
\* score += 0.4
PlusFourTenths(a) ==
  [num |-> 5 * a.num + 2 * a.den, den |-> 5 * a.den,
   ulp |-> IF \E r \in RoundsUp : a.num * r[2] = r[1] * a.den THEN 1 ELSE 0]

JaccardNothingShared(targetTokens, candidateTokens) == Frac(0, 1)
\* lines 2154-2169
Jaccard(targetTokens, candidateTokens) ==
  IF targetTokens = {} \/ candidateTokens = {} THEN Frac(0, 1)
  ELSE Frac(Cardinality(targetTokens \cap candidateTokens),
            Cardinality(targetTokens \cup candidateTokens))
calculateSimilarityScoreTokensOnly(target, candidate) ==
  IF target = <<>> \/ candidate = <<>> THEN Frac(0, 1)
  ELSE Jaccard(splitTokens(target), splitTokens(candidate))
calculateSimilarityScore(target, candidate) ==
  IF target = <<>> \/ candidate = <<>> THEN Frac(0, 1)
  ELSE IF includes(candidate, target) THEN Frac(1, 1)
  ELSE Jaccard(splitTokens(target), splitTokens(candidate))

\* ---------------------------------------------------------------- findOptionId
\* An option element: its value attribute, text, title, data-email, and the
\* first non-empty of data_email / data-tecnico-email / data_tecnico_email.
OptionEl(value, text) ==
  [value |-> value, text |-> text, title |-> <<>>, dataEmail |-> <<>>,
   dataEmailOther |-> <<>>]
IsLetter(c) ==
  \/ \E i \in DOMAIN UpperCase : UpperCase[i] = c
  \/ \E i \in DOMAIN LowerCase : LowerCase[i] = c
\* [A-Z0-9._%+-] and [A-Z0-9.-], case-insensitive
IsLocalChar(c) == IsLetter(c) \/ c \in DigitChars \/ c \in {".", "_", "%", "+", "-"}
IsDomainChar(c) == IsLetter(c) \/ c \in DigitChars \/ c \in {".", "-"}
\* the ends of the longest run of characters of a class around position p
RunStart(s, p, InClass(_)) ==
  CHOOSE i \in 1..p : /\ \A k \in i..p : InClass(s[k])
                      /\ i = 1 \/ ~InClass(s[i - 1])
RunEnd(s, p, InClass(_)) ==
  CHOOSE j \in p..Len(s) : /\ \A k \in p..j : InClass(s[k])
                           /\ j = Len(s) \/ ~InClass(s[j + 1])
\* a || b for strings
OrElse(a, b) == IF a # <<>> THEN a ELSE b
\* the match that starts with the run of local characters before the '@' at p
LooseEmailAt(s, p) ==
  SubSeq(s, RunStart(s, p - 1, IsLocalChar), RunEnd(s, p + 1, IsDomainChar))
LooseEmailAmong(s, ats) == IF ats = {} THEN <<>> ELSE LooseEmailAt(s, MinOf(ats))
\* (s.match(/[A-Z0-9._%+-]+@[A-Z0-9.-]+/i) || [])[0] || ''
looseEmail(s) ==
  LooseEmailAmong(s, {p \in 2..(Len(s) - 1) :
                        s[p] = "@" /\ IsLocalChar(s[p - 1]) /\ IsDomainChar(s[p + 1])})
\* the dots after the '@' at p that /[A-Z0-9.-]+\.[A-Z]{2,}/ can end at
TldDots(s, p) ==
  {q \in (p + 2)..(Len(s) - 2) :
     /\ s[q] = "."
     /\ \A k \in (p + 1)..q : IsDomainChar(s[k])
     /\ IsLetter(s[q + 1]) /\ IsLetter(s[q + 2])}
EmailAt(s, p) ==
  SubSeq(s, RunStart(s, p - 1, IsLocalChar),
         RunEnd(s, MaxOf(TldDots(s, p)) + 1, IsLetter))
EmailAmong(s, ats) == IF ats = {} THEN <<>> ELSE EmailAt(s, MinOf(ats))
\* extractEmailFromText: /[A-Z0-9._%+-]+@[A-Z0-9.-]+\.[A-Z]{2,}/i, or ''
extractEmailFromText(s) ==
  EmailAmong(s, {p \in 2..(Len(s) - 1) :
                   s[p] = "@" /\ IsLocalChar(s[p - 1]) /\ TldDots(s, p) # {}})

\* domain.split('.').filter(Boolean)[0], '' for undefined
FirstSegmentFrom(domain, startOf) ==
  IF startOf = {} THEN <<>>
  ELSE SubSeq(domain, MinOf(startOf),
              RunEnd(domain, MinOf(startOf), LAMBDA c : c # "."))
FirstSegment(domain) == FirstSegmentFrom(domain, {i \in DOMAIN domain : domain[i] # "."})
\* lines 2069-2073: the variant without what follows the first part of the domain
VariantsOfParts(lower, local, domain, domainPrefix) ==
  IF domainPrefix # <<>> /\ domainPrefix # domain
  THEN {lower, local \o <<"@">> \o domainPrefix}
  ELSE {lower}
VariantsSplitAt(lower, at) ==
  VariantsOfParts(lower, Sub(lower, 1, at - 1), Sub(lower, at + 1, Len(lower)),
                  FirstSegment(Sub(lower, at + 1, Len(lower))))
\* lower.split('@') has two parts when lower has one '@'
VariantsOfLower(lower, ats) ==
  IF Cardinality(ats) = 1 THEN VariantsSplitAt(lower, MinOf(ats)) ELSE {lower}
VariantsOf(lower) == VariantsOfLower(lower, {p \in DOMAIN lower : lower[p] = "@"})
\* lines 2058-2077: targetEmailVariants, for a target that has an '@'
targetEmailVariants(optionName) ==
  VariantsOf(normalizeText(OrElse(looseEmail(trim(optionName)), trim(optionName))))

\* the best match so far: bestValue and bestScore
NoBest == [value |-> <<>>, score |-> Frac(0, 1)]
\* lines 2109-2117: score += 0.4 when a numeric token is shared
WithNumericBonus(score, targetNumbers, candidateNumbers) ==
  IF targetNumbers \cap candidateNumbers # {} THEN PlusFourTenths(score) ELSE score
ScoreOf(target, normalizedText) ==
  WithNumericBonus(calculateSimilarityScore(target, normalizedText),
                   extractNumericTokens(target), extractNumericTokens(normalizedText))
\* lines 2119-2123: a higher score replaces the best match
Better(best, value, score) ==
  IF Greater(score, best.score) THEN [value |-> value, score |-> score] ELSE best
\* lines 2091-2107: an option whose e-mail is one of the variants
EmailMatches(opt, optionName, optEmailLoose) ==
  /\ includes(optionName, <<"@">>)
  /\ optEmailLoose # <<>>
  /\ normalizeText(optEmailLoose) \in targetEmailVariants(optionName)
\* lines 2084-2124: what one option does to the best match
ScanOption(best, opt, optionName) ==
  IF opt.value = <<>> THEN best
  ELSE IF EmailMatches(opt, optionName,
                       OrElse(looseEmail(opt.text),
                              OrElse(looseEmail(opt.title),
                                     OrElse(looseEmail(opt.dataEmail),
                                            looseEmail(opt.value)))))
  THEN [value |-> opt.value, score |-> Frac(1, 1)]
  ELSE Better(best, opt.value,
              ScoreOf(normalizeText(optionName), normalizeText(opt.text)))
\* lines 2128-2146: the second scan, made for an e-mail target without a match
ScanEmail(best, opt, optionName, optEmail) ==
  IF opt.value = <<>> THEN best
  ELSE IF optEmail # <<>> /\ normalizeText(optEmail) = normalizeText(optionName)
  THEN [value |-> opt.value, score |-> Frac(1, 1)]
  ELSE best
ScanOptionAttributes(best, opt, optionName) ==
  ScanEmail(best, opt, optionName,
            extractEmailFromText(opt.text \o <<" ">> \o opt.title \o <<" ">>
                                   \o OrElse(opt.dataEmail, opt.dataEmailOther)
                                   \o <<" ">> \o opt.value))
RECURSIVE ScanOptions(_, _, _, _)
ScanOptions(best, options, i, optionName) ==
  IF i > Len(options) THEN best
  ELSE ScanOptions(ScanOption(best, options[i], optionName), options, i + 1,
                   optionName)
RECURSIVE ScanAttributes(_, _, _, _)
ScanAttributes(best, options, i, optionName) ==
  IF i > Len(options) THEN best
  ELSE ScanAttributes(ScanOptionAttributes(best, options[i], optionName), options,
                      i + 1, optionName)
SecondScan(first, options, optionName) ==
  IF includes(optionName, <<"@">>) /\ first.value = <<>>
  THEN ScanAttributes(first, options, 1, optionName).value
  ELSE first.value
\* findOptionId, lines 2049-2152: the value of the best option, '' for none
findOptionId(options, optionName) ==
  SecondScan(ScanOptions(NoBest, options, 1, optionName), options, optionName)

\* ------------------------------------------- editarInstalacionGeonet: updates
\* A value of the updates object: undefined, null, a string, or a number with
\* String(value) as its text.
JsUndefined == [t |-> "undefined", s |-> <<>>]
JsNull == [t |-> "null", s |-> <<>>]
JsString(s) == [t |-> "string", s |-> s]
JsNumber(digits) == [t |-> "number", s |-> digits]
\* String(value)
String(v) == v.s
\* `!value` for the values above (the numbers of this model are not 0)
Falsey(v) == v.t \in {"undefined", "null"} \/ (v.t = "string" /\ v.s = <<>>)
\* obj[k], undefined when k is not a key
Get(obj, k) == IF Has(obj, k) THEN obj.val[k] ELSE JsUndefined
\* delete obj[k]
Delete(obj, k) ==
  [keys |-> SelectSeq(obj.keys, LAMBDA x : x # k),
   val |-> [x \in DOMAIN obj.val \ {k} |-> obj.val[x]]]

IsDigits(s) == \A i \in DOMAIN s : s[i] \in DigitChars
\* String(d).padStart(2, '0')
padStart2(s) == IF Len(s) < 2 THEN <<"0">> \o s ELSE s

\* /^(\d{4})-(\d{2})-(\d{2})T(\d{2}):(\d{2})/
MatchesIso(raw) ==
  /\ Len(raw) >= 16
  /\ IsDigits(SubSeq(raw, 1, 4)) /\ raw[5] = "-"
  /\ IsDigits(SubSeq(raw, 6, 7)) /\ raw[8] = "-"
  /\ IsDigits(SubSeq(raw, 9, 10)) /\ raw[11] = "T"
  /\ IsDigits(SubSeq(raw, 12, 13)) /\ raw[14] = ":"
  /\ IsDigits(SubSeq(raw, 15, 16))
\* /^([0-3]?\d)\/([0-1]?\d)\/(\d{yearLen})\s+(\d{1,2}):(\d{2})$/: the groups of
\* each way the whole string matches (there is at most one)
MatchesDayMonth(raw, yearLen) ==
  {g \in [d : {Sub(raw, 1, n) : n \in 1..2},
          m : {Sub(raw, i, j) : i \in 3..4, j \in 3..5},
          y : {Sub(raw, i, i + yearLen - 1) : i \in 5..7},
          w : 1..Len(raw),
          h : {Sub(raw, i, j) : i \in 1..Len(raw), j \in 1..Len(raw)},
          mi : {Sub(raw, Len(raw) - 1, Len(raw))}] :
     /\ Len(g.d) \in 1..2 /\ IsDigits(g.d)
     /\ Len(g.d) = 2 => g.d[1] \in {"0", "1", "2", "3"}
     /\ Len(g.m) \in 1..2 /\ IsDigits(g.m)
     /\ Len(g.m) = 2 => g.m[1] \in {"0", "1"}
     /\ Len(g.y) = yearLen /\ IsDigits(g.y)
     /\ Len(g.h) \in 1..2 /\ IsDigits(g.h)
     /\ Len(g.mi) = 2 /\ IsDigits(g.mi)
     /\ \E ws \in [1..g.w -> {" ", "\t", "\n"}] :
          raw = g.d \o <<"/">> \o g.m \o <<"/">> \o g.y \o ws \o g.h \o <<":">> \o g.mi}

\* `${padStart(d)}/${padStart(m)}/${y} ${padStart(h)}:${mi}`
Shown(g, century) ==
  padStart2(g.d) \o <<"/">> \o padStart2(g.m) \o <<"/">> \o century \o g.y
    \o <<" ">> \o padStart2(g.h) \o <<":">> \o g.mi
\* lines 1076-1087: the two day/month/year forms, else the trimmed string
FromDayMonth(raw, dm, dm2) ==
  IF dm # {} THEN Shown(CHOOSE g \in dm : TRUE, <<>>)
  ELSE IF dm2 # {} THEN Shown(CHOOSE g \in dm2 : TRUE, <<"2", "0">>)
  ELSE raw
\* lines 1067-1087, for raw = String(val).trim()
toGeonetDateOf(raw) ==
  IF raw = <<>> THEN raw
  ELSE IF MatchesIso(raw)
  THEN SubSeq(raw, 9, 10) \o <<"/">> \o SubSeq(raw, 6, 7) \o <<"/">>
         \o SubSeq(raw, 1, 4) \o <<" ">> \o SubSeq(raw, 12, 13) \o <<":">>
         \o SubSeq(raw, 15, 16)
  ELSE FromDayMonth(raw, MatchesDayMonth(raw, 4), MatchesDayMonth(raw, 2))
\* toGeonetDate, lines 1065-1088
toGeonetDate(val) ==
  IF val.t \in {"undefined", "null"} THEN val
  ELSE JsString(toGeonetDateOf(trim(String(val))))

\* lines 1091-1106: fecha_inicio and fecha_final are converted in place
F_fecha == <<"f", "e", "c", "h", "a">>
K_fecha_inicio == F_fecha \o <<"_", "i", "n", "i", "c", "i", "o">>
K_fecha_final == F_fecha \o <<"_", "f", "i", "n", "a", "l">>
SetIfChanged(upd, k, value, converted) ==
  IF converted # value THEN SetField(upd, k, converted) ELSE upd
ConvertValue(upd, k, value) ==
  IF value.t \in {"undefined", "null"} THEN upd
  ELSE SetIfChanged(upd, k, value, toGeonetDate(value))
ConvertDate(upd, k) == ConvertValue(upd, k, Get(upd, k))
ConvertDates(upd) == ConvertDate(ConvertDate(upd, K_fecha_inicio), K_fecha_final)

\* ------------------------------------- editarInstalacionGeonet: the merge
W_tecnico == <<"t", "e", "c", "n", "i", "c", "o">>
W_technician == <<"t", "e", "c", "h", "n", "i", "c", "i", "a", "n">>
W_inicio == <<"i", "n", "i", "c", "i", "o">>
W_instal == <<"i", "n", "s", "t", "a", "l">>
W_instalaci == W_instal \o <<"a", "c", "i">>
W_instalacion == W_instalaci \o <<"o", "n">>
W_date == <<"d", "a", "t", "e">>
K_csrfmiddlewaretoken ==
  <<"c", "s", "r", "f", "m", "i", "d", "d", "l", "e", "w", "a", "r", "e",
    "t", "o", "k", "e", "n">>

\* the null that mapUpdateToField returns (no key of the model is this string)
NoMatch == <<"null">>
\* Array.prototype.find, NoMatch for undefined
Find(keys, Test(_)) ==
  LET found == {i \in DOMAIN keys : Test(keys[i])}
  IN IF found = {} THEN NoMatch ELSE keys[MinOf(found)]
normalizeKey(k) == normalizeText(k)
Squeezed(k) == stripSeparators(normalizeKey(k))
\* lines 1150-1157: the first key with the highest score, if that is >= 0.5
Scores(baseKeys, updNorm) ==
  [i \in DOMAIN baseKeys |->
     calculateSimilarityScore(updNorm, Squeezed(baseKeys[i]))] \o <<>>
\* the first index with the highest score
TopOf(score) ==
  {i \in DOMAIN score : /\ \A j \in DOMAIN score : AtLeast(score[i], score[j])
                        /\ \A j \in 1..(i - 1) : Greater(score[i], score[j])}
PickBest(baseKeys, score, top) ==
  IF top = {} THEN NoMatch
  ELSE IF AtLeast(score[MinOf(top)], Frac(1, 2)) THEN baseKeys[MinOf(top)]
  ELSE NoMatch
PickFrom(baseKeys, score) == PickBest(baseKeys, score, TopOf(score))
BestFuzzy(baseKeys, updNorm) == PickFrom(baseKeys, Scores(baseKeys, updNorm))

\* the first of two results of Array.prototype.find that is not undefined
FirstFound(a, b) == IF a # NoMatch THEN a ELSE b
\* lines 1118-1123: a key that names the technician
TecnicoField(baseKeys, updNorm) ==
  IF \/ includes(updNorm, W_tecnico)
     \/ includes(updNorm, W_technician)
     \/ includes(updNorm, W_technician \o <<"n", "a", "m", "e">>)
  THEN Find(baseKeys, LAMBDA k : includes(normalizeKey(k), W_tecnico))
  ELSE NoMatch
HasInstal(n) ==
  includes(n, W_instal) \/ includes(n, W_instalacion) \/ includes(n, W_instalaci)
\* lines 1125-1133: a key that names the start or the installation
InstalField(baseKeys, updNorm) ==
  IF \/ includes(updNorm, W_inicio)
     \/ includes(updNorm, W_instal)
     \/ includes(updNorm, W_instalacion)
  THEN Find(baseKeys, LAMBDA k : HasInstal(Squeezed(k)))
  ELSE NoMatch
HasFechaInstal(n) ==
  includes(n, F_fecha) /\ (includes(n, W_instal) \/ includes(n, W_instalaci))
HasFecha(n) == includes(n, F_fecha) \/ includes(n, W_date)
\* lines 1135-1148: a key that names a date
FechaField(baseKeys, updNorm) ==
  IF includes(updNorm, F_fecha) \/ includes(updNorm, W_date)
  THEN FirstFound(Find(baseKeys, LAMBDA k : HasFechaInstal(Squeezed(k))),
                  Find(baseKeys, LAMBDA k : HasFecha(normalizeKey(k))))
  ELSE NoMatch
MapNormalizedFuzzyOnly(baseKeys, updNorm) ==
  BestFuzzy(baseKeys, updNorm)
\* lines 1116-1160, for updNorm = normalizeKey(updKey).replace(/[-_\s]+/g, '')
MapNormalized(baseKeys, updNorm) ==
  FirstFound(TecnicoField(baseKeys, updNorm),
             FirstFound(InstalField(baseKeys, updNorm),
                        FirstFound(FechaField(baseKeys, updNorm),
                                   BestFuzzy(baseKeys, updNorm))))
\* mapUpdateToField, lines 1114-1161; baseKeys are the keys the fields had
\* before the loop
mapUpdateToField(fields, baseKeys, updKey) ==
  IF Has(fields, updKey) THEN updKey ELSE MapNormalized(baseKeys, Squeezed(updKey))

\* fieldName = mapped || key
FieldNameFor(mapped, key) == IF mapped # NoMatch THEN mapped ELSE key
MergeEntrySkipsNull(fields, baseKeys, key, value) ==
  IF key = <<>> THEN fields
  ELSE IF value.t \in {"undefined", "null"} THEN fields
  ELSE SetField(fields, FieldNameFor(mapUpdateToField(fields, baseKeys, key), key),
                String(value))
\* lines 1164-1178: one turn of the loop over Object.entries(safeUpdates)
MergeEntry(fields, baseKeys, key, value) ==
  IF key = <<>> THEN fields
  ELSE IF value.t = "undefined" THEN fields
  ELSE SetField(fields, FieldNameFor(mapUpdateToField(fields, baseKeys, key), key),
                IF value.t = "null" THEN <<>> ELSE String(value))
RECURSIVE MergeFrom(_, _, _, _)
MergeFrom(fields, baseKeys, safeUpd, i) ==
  IF i > Len(safeUpd.keys) THEN fields
  ELSE MergeFrom(MergeEntry(fields, baseKeys, safeUpd.keys[i],
                            safeUpd.val[safeUpd.keys[i]]),
                 baseKeys, safeUpd, i + 1)
\* lines 1108-1178: the merge of the updates into the fields
mergeUpdates(fields, safeUpd) ==
  MergeFrom(fields, fields.keys, safeUpd, 1)
\* lines 1186-1190: the body of the POST, one pair for each key that is not ''
FormPairs(fields) ==
  LET kept == SelectSeq(fields.keys, LAMBDA k : k # <<>>)
  IN [i \in DOMAIN kept |-> <<kept[i], fields.val[kept[i]]>>] \o <<>>

\* lines 1038-1190: the reload before the POST (errors are swallowed), the
\* merge of the updates and the token set from the first fetch
EditReload ==
  /\ op = "edit"
  /\ wfPc = "editReload"
  /\ Send("GET editar instalacion (confirmacion antes de POST)")
  /\ \E freshPage \in PortalGet("edit") : \E tk \in Tokens \cup {""} :
       LET freshForm == FormOf(freshPage, tk)
           freshCsrf == IF csrfOf(freshForm) # "" THEN csrfOf(freshForm)
                        ELSE csrfToken
           reloaded == IF UsesFreshPage(freshPage)
                       THEN SetField(extractFormFields(freshForm),
                                     "csrfmiddlewaretoken", freshCsrf)
                       ELSE baseFields
           merged == mergeUpdates(reloaded, ConvertDates(params.updates))
       IN /\ baseFields' = SetField(merged, "csrfmiddlewaretoken", csrfToken)
          /\ baseResp' = IF UsesFreshPage(freshPage) THEN freshPage ELSE baseResp
          /\ contentUsed' = IF UsesFreshPage(freshPage)
                            THEN contentUsed \cup {freshPage} ELSE contentUsed
  /\ WfGoto("editPost")
  /\ UNCHANGED <<op, sessionAlive, dbRecord, params, actVars, csrfToken, postedBody>>

\* lines 1220-1223: a 302 to /Instalaciones counts as 200
effectiveStatus(response, toList) ==
  IF response.status = 302 /\ toList THEN 200 ELSE response.status

\* POST editar instalacion, its checks and the result object (lines 1186-1257)
EditPost ==
  /\ op = "edit"
  /\ wfPc = "editPost"
  /\ Send("POST editar instalacion")
  /\ postedBody' = [fields |-> baseFields, from |-> baseResp]
  /\ \E response \in PortalPost("edit") : \E toList \in BOOLEAN :
       /\ postAnswer' = response
       /\ wfReport' = IF CheckedPost(response) # NoErr THEN NoReport
                      ELSE ReportOf(response)
       /\ IF CheckedPost(response) # NoErr THEN WfThrow(CheckedPost(response))
          ELSE IF /\ effectiveStatus(response, toList) >= 200
                  /\ effectiveStatus(response, toList) < 400
          THEN /\ wfPc' = "editConfirm"
               /\ wfResult' = Returned(effectiveStatus(response, toList))
               /\ UNCHANGED <<wfAttempt, fnThrew>>
          ELSE WfEnd(Returned(effectiveStatus(response, toList)))
  /\ UNCHANGED <<op, sessionAlive, dbRecord, params, actVars, csrfToken,
                 baseFields, baseResp, contentUsed>>

\* lines 1259-1282: the confirmation GET (errors are swallowed); its fields go
\* into result.currentFields and the result is returned
EditConfirm ==
  /\ op = "edit"
  /\ wfPc = "editConfirm"
  /\ Send("GET confirmar editar instalacion (csrf)")
  /\ \E confirmPage \in PortalGet("edit") :
       contentUsed' = IF UsesFreshPage(confirmPage)
                      THEN contentUsed \cup {confirmPage} ELSE contentUsed
  /\ wfPc' = "done"
  /\ UNCHANGED <<op, sessionAlive, dbRecord, params, actVars, csrfToken,
                 baseFields, baseResp, postedBody, wfAttempt, wfResult,
                 fnThrew>>

\* ------------------------------------------------------------------ crearTicket
\* lines 533-553: the parameters are destructured and withGeonetRelogin is
\* called; nothing is checked before it
TicketStart ==
  /\ op = "ticket"
  /\ wfPc = "start"
  /\ WfGoto("getClient")
  /\ UNCHANGED <<op, sessionAlive, sent, dbRecord, params, actVars, editVars>>

\* GET ticket (csrf): checks, token, and the technician resolved from
\* tecnicoId (params.idGiven) or from an option of the select that matches
\* tecnicoName / emailTecnico (params.nameMatches); the e-mail looked up in
\* the database is best effort and changes none of what follows
TicketGetForm ==
  /\ op = "ticket"
  /\ wfPc = "fn"
  /\ Send("GET ticket (csrf)")
  /\ \E response \in PortalGet("ticket") : \E tk \in {"", "tok"} :
       IF CheckedGet(response) # NoErr THEN WfThrow(CheckedGet(response))
       ELSE IF tk = "" THEN WfThrow(Err(502, FALSE))
       ELSE IF ~(params.idGiven \/ params.nameMatches)
       THEN WfThrow(Err(400, FALSE))
       ELSE WfGoto("ticketPost")
  /\ UNCHANGED <<op, sessionAlive, dbRecord, params, actVars, editVars>>

\* POST crear ticket, its checks and the result object (lines 707-765)
TicketPost ==
  /\ op = "ticket"
  /\ wfPc = "ticketPost"
  /\ Send("POST crear ticket")
  /\ \E response \in PortalPost("ticket") :
       /\ postAnswer' = response
       /\ wfReport' = IF CheckedPost(response) # NoErr THEN NoReport
                      ELSE ReportOf(response)
       /\ IF CheckedPost(response) # NoErr THEN WfThrow(CheckedPost(response))
          ELSE WfEnd(Returned(response.status))
  /\ UNCHANGED <<op, sessionAlive, dbRecord, params, actVars, editVars>>

\* ------------------------- eliminarTicketGeonet and eliminarInstalacionGeonet
DeleteOps == {"eliminarTicket", "eliminarInstalacion"}
DeleteGetLabel ==
  IF op = "eliminarTicket" THEN "GET eliminar ticket (csrf)"
  ELSE "GET eliminar instalacion (csrf)"
DeletePostLabel ==
  IF op = "eliminarTicket" THEN "POST eliminar ticket"
  ELSE "POST eliminar instalacion"

\* the ticketId / externalId check, before withGeonetRelogin
DeleteValidate ==
  /\ op \in DeleteOps
  /\ wfPc = "start"
  /\ IF ~params.idGiven THEN WfEnd(Err(400, FALSE)) ELSE WfGoto("getClient")
  /\ UNCHANGED <<op, sessionAlive, sent, dbRecord, params, actVars, editVars>>

\* GET eliminar ... (csrf): checks and token
DeleteGetForm ==
  /\ op \in DeleteOps
  /\ wfPc = "fn"
  /\ Send(DeleteGetLabel)
  /\ \E response \in PortalGet("delete") : \E tk \in {"", "tok"} :
       IF CheckedGet(response) # NoErr THEN WfThrow(CheckedGet(response))
       ELSE IF tk = "" THEN WfThrow(Err(502, FALSE))
       ELSE WfGoto("deletePost")
  /\ UNCHANGED <<op, sessionAlive, dbRecord, params, actVars, editVars>>

\* the result of a delete has formErrors only
ErrorsOnly(report) == [report EXCEPT !.missingRequiredFields = {}]

\* POST eliminar ..., its checks and the result object
DeletePost ==
  /\ op \in DeleteOps
  /\ wfPc = "deletePost"
  /\ Send(DeletePostLabel)
  /\ \E response \in PortalPost("delete") :
       /\ postAnswer' = response
       /\ wfReport' = IF CheckedPost(response) # NoErr THEN NoReport
                      ELSE ErrorsOnly(ReportOf(response))
       /\ IF CheckedPost(response) # NoErr THEN WfThrow(CheckedPost(response))
          ELSE WfEnd(Returned(response.status))
  /\ UNCHANGED <<op, sessionAlive, dbRecord, params, actVars, editVars>>

NoBody == [fields |-> EmptyObject, from |-> NoResp]
EditRest ==
  /\ csrfToken = ""
  /\ baseFields = EmptyObject
  /\ baseResp = NoResp
  /\ postedBody = NoBody
  /\ contentUsed = {}

Rows == {[exists |-> FALSE, plan |-> "", date |-> FALSE]}
          \cup {[exists |-> TRUE, plan |-> pl, date |-> d] :
                  pl \in {"", "Plan 50MB"}, d \in BOOLEAN}

ActRest ==
  /\ resolvedRequest = FALSE
  /\ effectivePlanName = ""
  /\ technicianId = Unset
  /\ planId = Unset
  /\ firstAvailableIp = Unset
  /\ request = UnreadRow
  /\ postedWith = {}

WfRest ==
  /\ op = "none"
  /\ wfPc = "done"
  /\ wfAttempt = 1
  /\ sessionAlive = TRUE
  /\ sent = <<>>
  /\ wfResult = NoErr
  /\ fnThrew = <<>>
  /\ dbRecord = [exists |-> FALSE, plan |-> "", date |-> FALSE]
  /\ params = [idGiven |-> FALSE, nameMatches |-> FALSE, planName |-> "",
               idsGiven |-> FALSE, updates |-> EmptyObject]
  /\ ActRest
  /\ EditRest
  /\ PostRest

ActivateParams ==
  [idGiven : BOOLEAN, nameMatches : BOOLEAN, planName : {"", "Plan 100MB"},
   idsGiven : {TRUE}, updates : {EmptyObject}]
EditParams ==
  [idGiven : {FALSE}, nameMatches : {FALSE}, planName : {""},
   idsGiven : BOOLEAN, updates : {EmptyObject}]
TicketParams ==
  [idGiven : BOOLEAN, nameMatches : BOOLEAN, planName : {""},
   idsGiven : {TRUE}, updates : {EmptyObject}]
DeleteParams ==
  [idGiven : BOOLEAN, nameMatches : {FALSE}, planName : {""},
   idsGiven : {TRUE}, updates : {EmptyObject}]

WorkflowInit ==
  /\ op \in {"activate", "edit", "ticket"} \cup DeleteOps
  /\ wfPc = "start"
  /\ wfAttempt = 1
  /\ sessionAlive \in BOOLEAN
  /\ sent = <<>>
  /\ wfResult = NoErr
  /\ fnThrew = <<>>
  /\ IF op = "activate"
     THEN dbRecord \in Rows /\ params \in ActivateParams
     ELSE /\ dbRecord = [exists |-> FALSE, plan |-> "", date |-> FALSE]
          /\ params \in IF op = "edit" THEN EditParams
                         ELSE IF op = "ticket" THEN TicketParams
                         ELSE DeleteParams
  /\ ActRest
  /\ EditRest
  /\ PostRest

\* ------------------------------------------------------------ form snapshots
\* The forms the snapshot code is run on: up to MaxControls controls, a select
\* having up to MaxOptions options.
InputTypes == {"text", "checkbox", "radio", "submit", "SUBMIT", "button", "file"}
Inputs ==
  {Input(name, type, checked, value) :
     name \in {"", "f", "g"}, type \in InputTypes, checked \in BOOLEAN,
     value \in {Undefined, "", "on"}}
Textareas == {Textarea(name, text) : name \in {"f", "g"}, text \in {"", " ", "on"}}
Options ==
  {Option(value, text, selected) :
     value \in {"", "7", "8"}, text \in {"", "---------", "Ana"},
     selected \in BOOLEAN}
OptionLists == UNION {[1..n -> Options] : n \in 0..MaxOptions}
Selects == {Select("f", options) : options \in OptionLists}
Controls ==
  {c \in Inputs : c.checked => c.type \in {"checkbox", "radio"}}
    \cup Textareas \cup Selects
Forms == UNION {[1..n -> Controls] : n \in 0..MaxControls}

SnapRest ==
  /\ formEl = NoForm
  /\ snapshot = EmptyObject
  /\ snapshotBy = "none"

SnapshotInit ==
  /\ formEl \in Forms
  /\ snapshot = EmptyObject
  /\ snapshotBy = "none"

\* editarInstalacionGeonet, lines 954-1002, on the page fetched first
EditSnapshot ==
  /\ snapshotBy = "none"
  /\ snapshot' = inlineSnapshot(formEl)
  /\ snapshotBy' = "inline"
  /\ UNCHANGED formEl

\* extractFormFields, on the page a ticket, a delete or the reload of
\* editarInstalacionGeonet (line 1051) fetched
ExtractSnapshot ==
  /\ snapshotBy = "none"
  /\ snapshot' = extractFormFields(formEl)
  /\ snapshotBy' = "extractFormFields"
  /\ UNCHANGED formEl

\* ------------------------------------- editarInstalacionGeonet with updates
MaxFields == 2
MaxUpdates == 2
F_id_tecnico == <<"i", "d", "_">> \o W_tecnico
F_fecha_instalacion == F_fecha \o <<"_">> \o W_instalacion
F_instalador == W_instal \o <<"a", "d", "o", "r">>
FieldNames == {F_id_tecnico, F_fecha_instalacion, F_instalador}
K_tecnicoName == W_tecnico \o <<"N", "a", "m", "e">>
K_tecnicoNombre == W_tecnico \o <<"N", "o", "m", "b", "r", "e">>
K_fechaInstalacion == F_fecha \o <<"I">> \o Tail(W_instalacion)
K_ID == <<"I", "D">>
K_zz == <<"z", "z">>
K_csrf_separated ==
  <<"c", "s", "r", "f", "_", "m", "i", "d", "d", "l", "e", "w", "a", "r", "e", "_",
    "t", "o", "k", "e", "n">>
UpdateKeys ==
  {W_tecnico, K_tecnicoName, K_fechaInstalacion, K_fecha_final, K_ID, F_instalador,
   K_zz, K_csrfmiddlewaretoken, K_csrf_separated}
IsoDate ==
  <<"2", "0", "2", "4", "-", "0", "5", "-", "0", "1", "T", "1", "0", ":", "3", "0">>
UpdateValues == {JsUndefined, JsNull, JsNumber(<<"7">>), JsString(IsoDate)}
\* the sequences without repetition of at most n elements of S
RECURSIVE Orderings(_, _)
Orderings(S, n) ==
  IF n = 0 THEN {<<>>}
  ELSE LET shorter == Orderings(S, n - 1)
       IN shorter \cup {Append(q, x) : q \in shorter, x \in S}
Distinct(q) == \A i \in DOMAIN q : \A j \in DOMAIN q : i # j => q[i] # q[j]
OldValue == <<"o", "l", "d">>
FreshCsrf == <<"F">>
FirstCsrf == <<"T">>
\* the field sets extractFormFields gives for the reloaded page; its token is
\* the one of the first page or a new one
FreshFieldSets ==
  {Assigned(<<<<K_csrfmiddlewaretoken, tk>>>>
            \o [i \in DOMAIN q |-> <<q[i], OldValue>>]) :
     q \in {o \in Orderings(FieldNames, MaxFields) : Distinct(o)},
     tk \in {FirstCsrf, FreshCsrf}}
UpdateObjects ==
  UNION {{[keys |-> q, val |-> f] : f \in [{q[i] : i \in DOMAIN q} -> UpdateValues]} :
           q \in {o \in Orderings(UpdateKeys, MaxUpdates) : Distinct(o)}}
\* the technician select of the edit page
techSelect == <<OptionEl(<<>>, <<"-", "-", "-", "-", "-", "-", "-", "-", "-">>),
                OptionEl(<<"9">>, <<"7">>)>>
\* what resolveWisphubTechnicianIdByName can give: nothing, or an id
WisphubIds == {<<>>, <<"3">>}

MergeRest ==
  /\ mergePc = "rest"
  /\ givenUpdates = EmptyObject
  /\ safeUpdates = EmptyObject
  /\ freshFields = EmptyObject
  /\ sentFields = EmptyObject
  /\ sentForm = <<>>
  /\ againFields = EmptyObject
MergeInit ==
  /\ mergePc = "start"
  /\ givenUpdates \in UpdateObjects
  /\ safeUpdates = givenUpdates
  /\ freshFields \in FreshFieldSets
  /\ sentFields = EmptyObject
  /\ sentForm = <<>>
  /\ againFields = EmptyObject

\* lines 908-912: safeUpdates is params.updates, without the caller's csrf
MergeStart ==
  /\ mergePc = "start"
  /\ safeUpdates' = Delete(safeUpdates, K_csrfmiddlewaretoken)
  /\ mergePc' = "tecnico"
  /\ UNCHANGED <<givenUpdates, freshFields, sentFields, sentForm, againFields>>

\* safeUpdates.tecnicoName || safeUpdates.tecnicoNombre
techNameOf(upd) ==
  IF ~Falsey(Get(upd, K_tecnicoName)) THEN Get(upd, K_tecnicoName)
  ELSE Get(upd, K_tecnicoNombre)
\* lines 1004-1035: a technician given by name is resolved to an id
MergeTecnico ==
  /\ mergePc = "tecnico"
  /\ LET techNameCandidate ==
           IF Falsey(techNameOf(safeUpdates)) THEN <<>>
           ELSE trim(String(techNameOf(safeUpdates)))
     IN IF techNameCandidate = <<>> THEN UNCHANGED safeUpdates
        ELSE \E resolvedFromWisphub \in WisphubIds :
               LET afterWisphub ==
                     IF resolvedFromWisphub # <<>>
                     THEN SetField(safeUpdates, W_tecnico, JsString(resolvedFromWisphub))
                     ELSE safeUpdates
                   resolved == findOptionId(techSelect, techNameCandidate)
               IN safeUpdates' =
                    IF Falsey(Get(afterWisphub, W_tecnico)) /\ resolved # <<>>
                    THEN SetField(afterWisphub, W_tecnico, JsString(resolved))
                    ELSE afterWisphub
  /\ mergePc' = "merge"
  /\ UNCHANGED <<givenUpdates, freshFields, sentFields, sentForm, againFields>>

\* line 941 and line 1196: the X-CSRFToken header is the token of the first page
XCsrfTokenHeader == FirstCsrf
withMergedToken(merged) == merged
\* lines 1180 and 1184: baseFields['csrfmiddlewaretoken'] = csrfToken
withScrapedToken(merged) == SetField(merged, K_csrfmiddlewaretoken, FirstCsrf)
\* lines 1091-1190: the dates are converted, the updates merged, the form built
MergePost ==
  /\ mergePc = "merge"
  /\ LET converted == ConvertDates(safeUpdates)
         merged == mergeUpdates(freshFields, converted)
         baseFieldsSent == withScrapedToken(merged)
     IN /\ safeUpdates' = converted
        /\ sentFields' = baseFieldsSent
        /\ sentForm' = FormPairs(baseFieldsSent)
  /\ mergePc' = "posted"
  /\ UNCHANGED <<givenUpdates, freshFields, againFields>>

\* the same lines for the updates {} and the fields the first merge left
MergeEmpty ==
  /\ mergePc = "posted"
  /\ LET merged == mergeUpdates(sentFields, ConvertDates(EmptyObject))
     IN againFields' = withScrapedToken(merged)
  /\ mergePc' = "again"
  /\ UNCHANGED <<givenUpdates, safeUpdates, freshFields, sentFields, sentForm>>


\* ------------------------------------------------------------ option resolution
T_dashes == <<"-", "-", "-", "-", "-", "-", "-", "-", "-">>
T_juan_perez == <<"J", "u", "a", "n", " ", "P", "e", "r", "e", "z">>
T_maria_lopez == <<"M", "a", "r", "i", "a", " ", "L", "o", "p", "e", "z">>
T_juan_perez_soto ==
  <<"J", "u", "a", "n", " ", "P", "e", "r", "e", "z", " ", "S", "o", "t", "o">>
T_perez_juan == <<"P", "e", "r", "e", "z", " ", "J", "u", "a", "n">>
T_zona_vlan ==
  <<"V", "i", "l", "l", "a", " ", "M", "a", "u", "l", "e", " ", "-", " ", "Z", "o",
    "n", "a", " ", "2", "0", "1", " ", "-", " ", "V", "l", "a", "n", " ", "2", "0",
    "1">>
T_zona_ftth ==
  <<"V", "i", "l", "l", "a", " ", "M", "a", "u", "l", "e", " ", "-", " ", "Z", "2",
    "0", "1", " ", "F", "T", "T", "H">>
T_seleccione == <<"S", "e", "l", "e", "c", "c", "i", "o", "n", "e">>
T_fibra_300 == <<"F", "i", "b", "r", "a", " ", "3", "0", "0">>
T_fibra_600 == <<"F", "i", "b", "r", "a", " ", "6", "0", "0">>
T_ana == <<"A", "n", "a", " ", "a", "@", "g">>
T_bea == <<"B", "e", "a", " ", "b", "@", "g">>
T_rb == <<"R", "B", " ", "1">>
N_perez_juan == <<"p", "e", "r", "e", "z", " ", "j", "u", "a", "n">>
N_zz == <<"z", "z">>
N_fibra_600 == <<"f", "i", "b", "r", "a", " ", "6", "0", "0">>
N_zona ==
  <<"V", "i", "l", "l", "a", " ", "M", "a", "u", "l", "e", " ", "-", " ", "Z", "2",
    "0", "1">>
N_ftth == <<"f", "t", "t", "h">>
N_rb == <<"r", "b">>
N_juan == <<"j", "u", "a", "n">>
N_perez == <<"p", "e", "r", "e", "z">>
N_soto == <<"s", "o", "t", "o">>
N_a_mail == <<"a", "@", "g", ".", "c", "l">>
N_b_mail == <<"b", "@", "g", ".", "c", "l">>

\* An option element that can carry the selected attribute.
SelectOption(value, text, selected) ==
  [value |-> value, text |-> text, title |-> <<>>, dataEmail |-> <<>>,
   dataEmailOther |-> <<>>, selected |-> selected]
\* lines 2181-2203: the value of the first option[selected], else of the first
\* option with a value whose text is empty or has no row of nine dashes
FirstValid(options) ==
  {i \in DOMAIN options :
     /\ options[i].value # <<>>
     /\ options[i].text = <<>> \/ ~includes(options[i].text, T_dashes)}
ValueAt(options, found) == IF found = {} THEN <<>> ELSE options[MinOf(found)].value
getSelectedOptionValueNoFallback(options) ==
  ValueAt(options, {i \in DOMAIN options : options[i].selected})
getSelectedOptionValue(options) ==
  IF ValueAt(options, {i \in DOMAIN options : options[i].selected}) # <<>>
  THEN ValueAt(options, {i \in DOMAIN options : options[i].selected})
  ELSE ValueAt(options, FirstValid(options))
\* lines 2456-2465 (router), 2467-2476 (zona), 2478-2487 (ap)
ResolveOrDefault(options, name) ==
  IF name # <<>> /\ options # <<>> /\ findOptionId(options, name) # <<>>
  THEN findOptionId(options, name)
  ELSE getSelectedOptionValue(options)

Placeholder == SelectOption(<<>>, T_dashes, FALSE)
PlaceholderSelected == SelectOption(<<>>, T_dashes, TRUE)
Seleccione == SelectOption(<<>>, T_seleccione, FALSE)
JuanPerez == SelectOption(<<"1">>, T_juan_perez, FALSE)
MariaLopez == SelectOption(<<"2">>, T_maria_lopez, FALSE)
JuanPerezSoto == SelectOption(<<"1">>, T_juan_perez_soto, FALSE)
PerezJuan == SelectOption(<<"2">>, T_perez_juan, FALSE)
Ana == SelectOption(<<"3">>, T_ana, FALSE)
Bea == SelectOption(<<"4">>, T_bea, FALSE)
Fibra300 == SelectOption(<<"7">>, T_fibra_300, TRUE)
Fibra600 == SelectOption(<<"8">>, T_fibra_600, FALSE)
ZonaVlan == SelectOption(<<"3">>, T_zona_vlan, FALSE)
ZonaFtth == SelectOption(<<"4">>, T_zona_ftth, FALSE)
ZonaFtthSelected == SelectOption(<<"4">>, T_zona_ftth, TRUE)
Rb == SelectOption(<<"1">>, T_rb, FALSE)
DashedRb == SelectOption(<<"2">>, T_dashes \o T_rb, FALSE)

\* the selects and names of an activation
MaxZonaOptions == 2
Roles == {"tecnico", "plan", "router", "zona", "ap"}
TecnicoSelects ==
  {<<Placeholder, JuanPerez, MariaLopez>>, <<Placeholder>>, <<JuanPerezSoto, PerezJuan>>}
TecnicoNames == {N_perez_juan, N_zz}
PlanSelects == {<<Placeholder, Fibra300, Fibra600>>, <<PlaceholderSelected>>}
PlanNames == {N_fibra_600, N_zz}
RouterSelects == {<<>>, <<PlaceholderSelected, DashedRb, Rb>>, <<Seleccione>>}
RouterNames == {<<>>, N_rb, N_zz}
ZonaOptions ==
  {Placeholder, PlaceholderSelected, Seleccione, ZonaVlan, ZonaFtth, ZonaFtthSelected}
ZonaSelects == Orderings(ZonaOptions, MaxZonaOptions)
ZonaNames == {<<>>, N_zona, N_ftth, N_zz}
NoneChosen == [r \in Roles |-> <<>>]

\* the arguments of single calls
ScoreTexts ==
  {<<>>, <<" ">>, N_juan, N_perez_juan, T_juan_perez, T_juan_perez_soto, T_maria_lopez,
   N_zona, T_zona_vlan, T_fibra_600}
MaxTokens == 3
ReorderTokens == {N_juan, N_perez, N_soto, N_a_mail, N_b_mail}
ReorderSelects ==
  {<<JuanPerez, MariaLopez>>, <<JuanPerezSoto, PerezJuan>>, <<PerezJuan, JuanPerezSoto>>,
   <<Ana, Bea>>, <<Placeholder, JuanPerezSoto>>, <<JuanPerez>>}
RECURSIVE JoinFrom(_, _)
JoinFrom(tokens, i) ==
  IF i > Len(tokens) THEN <<>>
  ELSE IF i = Len(tokens) THEN tokens[i]
  ELSE tokens[i] \o <<" ">> \o JoinFrom(tokens, i + 1)
Join(tokens) == JoinFrom(tokens, 1)
TokenOrders(n) == {q \in Orderings(1..n, n) : Len(q) = n /\ Distinct(q)}
Permuted(tokens, q) == [i \in DOMAIN q |-> tokens[q[i]]] \o <<>>
NotScored == [target |-> <<>>, candidate |-> <<>>, score |-> Frac(0, 1)]
NotReordered ==
  [options |-> <<>>, tokens |-> <<>>, order |-> <<>>, first |-> <<>>, second |-> <<>>]

ResolveRest ==
  /\ resolvePc = "rest"
  /\ optSelect = <<>>
  /\ optName = <<>>
  /\ chosen = NoneChosen
  /\ resolvePosts = 0
  /\ resolveError = 0
  /\ scored = NotScored
  /\ reordered = NotReordered
ResolveInit ==
  /\ resolvePc = "tecnico"
  /\ optSelect = <<>>
  /\ optName = <<>>
  /\ chosen = NoneChosen
  /\ resolvePosts = 0
  /\ resolveError = 0
  /\ scored = NotScored
  /\ reordered = NotReordered

\* what resolving one select leaves behind
Resolved(role, options, name, value, next) ==
  /\ optSelect' = options
  /\ optName' = name
  /\ chosen' = [chosen EXCEPT ![role] = value]
  /\ resolvePc' = next
\* lines 480-487: technicianId = findOptionId(techSelect, technicianName)
ResolveTecnico ==
  /\ resolvePc = "tecnico"
  /\ \E options \in TecnicoSelects, name \in TecnicoNames :
       Resolved("tecnico", options, name, findOptionId(options, name), "plan")
  /\ UNCHANGED <<resolvePosts, resolveError, scored, reordered>>
\* lines 485-504: planId = findOptionId(planSelect, effectivePlanName), and the
\* two checks that follow
RequiredMissing(technician, plan) == technician = <<>> \/ plan = <<>>
ResolvePlan ==
  /\ resolvePc = "plan"
  /\ \E options \in PlanSelects, name \in PlanNames :
       LET plan == findOptionId(options, name)
           missing == RequiredMissing(chosen["tecnico"], plan)
       IN /\ Resolved("plan", options, name, plan, IF missing THEN "failed" ELSE "router")
          /\ resolveError' = IF missing THEN 404 ELSE 0
  /\ UNCHANGED <<resolvePosts, scored, reordered>>
ResolveRouter ==
  /\ resolvePc = "router"
  /\ \E options \in RouterSelects, name \in RouterNames :
       Resolved("router", options, name, ResolveOrDefault(options, name), "zona")
  /\ UNCHANGED <<resolvePosts, resolveError, scored, reordered>>
ResolveZona ==
  /\ resolvePc = "zona"
  /\ \E options \in ZonaSelects, name \in ZonaNames :
       Resolved("zona", options, name, ResolveOrDefault(options, name), "ap")
  /\ UNCHANGED <<resolvePosts, resolveError, scored, reordered>>
ResolveAp ==
  /\ resolvePc = "ap"
  /\ \E options \in RouterSelects, name \in RouterNames :
       Resolved("ap", options, name, ResolveOrDefault(options, name), "post")
  /\ UNCHANGED <<resolvePosts, resolveError, scored, reordered>>
\* lines 2530-2575: the activation POST with the five values
ResolvePost ==
  /\ resolvePc = "post"
  /\ resolvePosts' = resolvePosts + 1
  /\ resolvePc' = "posted"
  /\ UNCHANGED <<optSelect, optName, chosen, resolveError, scored, reordered>>

\* one call of calculateSimilarityScore on normalized texts, as findOptionId makes it
ScoreCall ==
  /\ resolvePc = "tecnico"
  /\ \E target \in ScoreTexts, candidate \in ScoreTexts :
       scored' = [target |-> normalizeText(target),
                  candidate |-> normalizeText(candidate),
                  score |-> calculateSimilarityScore(normalizeText(target),
                                                     normalizeText(candidate))]
  /\ resolvePc' = "scored"
  /\ UNCHANGED <<optSelect, optName, chosen, resolvePosts, resolveError, reordered>>
\* findOptionId for a target and for the same tokens in another order
ReorderCall ==
  /\ resolvePc = "tecnico"
  /\ \E options \in ReorderSelects, tokens \in Orderings(ReorderTokens, MaxTokens) :
       \E order \in TokenOrders(Len(tokens)) :
         /\ tokens # <<>>
         /\ reordered' =
              [options |-> options, tokens |-> tokens, order |-> order,
               first |-> findOptionId(options, Join(tokens)),
               second |-> findOptionId(options, Join(Permuted(tokens, order)))]
  /\ resolvePc' = "reordered"
  /\ UNCHANGED <<optSelect, optName, chosen, resolvePosts, resolveError, scored>>


\* ------------------------------------------------------------ editarTicketWisphub
\* A value of the ticket or of the updates: as above, or an object, of which
\* only the id matters ('' when it has none of the id properties).
JsObject(id) == [t |-> "object", s |-> id]
ObjectText ==
  <<"[", "o", "b", "j", "e", "c", "t", " ", "O", "b", "j", "e", "c", "t", "]">>
UndefinedText == <<"u", "n", "d", "e", "f", "i", "n", "e", "d">>
NullText == <<"n", "u", "l", "l">>
SecondsZero == <<":", "0", "0">>
\* String(value), for every value
TextOf(v) ==
  CASE v.t = "object" -> ObjectText
    [] v.t = "undefined" -> UndefinedText
    [] v.t = "null" -> NullText
    [] OTHER -> v.s
IsNullish(v) == v.t \in {"undefined", "null"}
\* a ?? b
Coalesce(a, b) == IF IsNullish(a) THEN b ELSE a
\* typeof v === 'string' ? v.trim() : String(v)
AsString(v) == IF v.t = "string" THEN trim(v.s) ELSE TextOf(v)

\* lines 1580-1585: pick(key, value)
pick(obj, key, value) ==
  IF IsNullish(value) THEN obj
  ELSE IF value.t = "string"
       THEN IF trim(value.s) = <<>> THEN obj ELSE SetField(obj, key, JsString(trim(value.s)))
       ELSE SetField(obj, key, value)
RECURSIVE PickEach(_, _, _)
PickEach(obj, picks, i) ==
  IF i > Len(picks) THEN obj
  ELSE PickEach(pick(obj, picks[i][1], picks[i][2]), picks, i + 1)

\* [0-2]\d:[0-5]\d(?::[0-5]\d)?
IsTimeOfDay(t) ==
  /\ Len(t) \in {5, 8}
  /\ t[1] \in {"0", "1", "2"} /\ t[2] \in DigitChars /\ t[3] = ":"
  /\ t[4] \in {"0", "1", "2", "3", "4", "5"} /\ t[5] \in DigitChars
  /\ Len(t) = 8 =>
       t[6] = ":" /\ t[7] \in {"0", "1", "2", "3", "4", "5"} /\ t[8] \in DigitChars
\* what follows the white space after the tenth character
TimePart(raw) == trimStart(SubSeq(raw, 11, Len(raw)))
WithSeconds(t) == IF Len(t) = 5 THEN t \o SecondsZero ELSE t
\* /^([0-3]\d)\/([0-1]\d)\/(\d{4})\s+([0-2]\d):([0-5]\d)(?::([0-5]\d))?$/
MatchesDmY(raw) ==
  /\ Len(raw) >= 16
  /\ raw[1] \in {"0", "1", "2", "3"} /\ raw[2] \in DigitChars /\ raw[3] = "/"
  /\ raw[4] \in {"0", "1"} /\ raw[5] \in DigitChars /\ raw[6] = "/"
  /\ IsDigits(SubSeq(raw, 7, 10))
  /\ IsSpace(raw[11])
  /\ IsTimeOfDay(TimePart(raw))
\* /^(\d{4})-([0-1]\d)-([0-3]\d)\s+([0-2]\d):([0-5]\d)(?::([0-5]\d))?$/
MatchesYMdSpace(raw) ==
  /\ Len(raw) >= 16
  /\ IsDigits(SubSeq(raw, 1, 4)) /\ raw[5] = "-"
  /\ raw[6] \in {"0", "1"} /\ raw[7] \in DigitChars /\ raw[8] = "-"
  /\ raw[9] \in {"0", "1", "2", "3"} /\ raw[10] \in DigitChars
  /\ IsSpace(raw[11])
  /\ IsTimeOfDay(TimePart(raw))
\* lines 1555-1578
normalizeWisphubDateTimeOf(value, raw) ==
  IF raw = <<>> THEN value
  ELSE IF MatchesDmY(raw)
  THEN JsString(SubSeq(raw, 7, 10) \o <<"-">> \o SubSeq(raw, 4, 5) \o <<"-">>
                \o SubSeq(raw, 1, 2) \o <<" ">> \o WithSeconds(TimePart(raw)))
  ELSE IF MatchesYMdSpace(raw)
  THEN JsString(SubSeq(raw, 1, 10) \o <<" ">> \o WithSeconds(TimePart(raw)))
  ELSE IF MatchesIso(raw)
  THEN JsString(SubSeq(raw, 1, 10) \o <<" ">> \o SubSeq(raw, 12, Len(raw)))
  ELSE value
normalizeWisphubDateTime(value) ==
  IF IsNullish(value) THEN value
  ELSE normalizeWisphubDateTimeOf(value, trim(TextOf(value)))

\* lines 1587-1597: normalizedUpdates
normalizedUpdatesOf(updates) ==
  PickEach(EmptyObject,
    <<<<"asuntos_default",
        Coalesce(Get(updates, "asuntos_default"), Get(updates, "asuntosDefault"))>>,
      <<"asunto", Get(updates, "asunto")>>,
      <<"descripcion", Get(updates, "descripcion")>>,
      <<"estado", Get(updates, "estado")>>,
      <<"prioridad", Get(updates, "prioridad")>>,
      <<"servicio", Get(updates, "servicio")>>,
      <<"fecha_inicio",
        normalizeWisphubDateTime(
          Coalesce(Get(updates, "fecha_inicio"), Get(updates, "fechaInicio")))>>,
      <<"fecha_final",
        normalizeWisphubDateTime(
          Coalesce(Get(updates, "fecha_final"), Get(updates, "fechaFinal")))>>,
      <<"origen_reporte",
        Coalesce(Get(updates, "origen_reporte"), Get(updates, "origenReporte"))>>,
      <<"departamento", Get(updates, "departamento")>>,
      <<"email_tecnico",
        Coalesce(Get(updates, "email_tecnico"), Get(updates, "emailTecnico"))>>>>, 1)

\* lines 1601-1606: the entries buildMultipart appends (and the PUT keeps)
IsSent(v) ==
  /\ ~IsNullish(v)
  /\ AsString(v) # <<>>
  /\ toLowerCase(AsString(v)) \notin {UndefinedText, NullText}
SentKeys(payload) == SelectSeq(payload.keys, LAMBDA k : IsSent(payload.val[k]))
\* lines 1850-1856: cleaned
cleaned(payload) ==
  [keys |-> SentKeys(payload), val |-> [k \in {x \in DOMAIN payload.val : IsSent(payload.val[x])} |-> payload.val[k]]]
\* lines 1599-1617: the form as its pairs, in order; sentFields are its names
buildMultipart(payload, withFile) ==
  [i \in DOMAIN SentKeys(payload) |->
     <<SentKeys(payload)[i], AsString(payload.val[SentKeys(payload)[i]])>>] \o <<>>
  \o (IF withFile THEN <<<<"archivo_ticket", <<"f", "i", "l", "e">>>>>> ELSE <<>>)

\* lines 1748-1763
extractScalar(value) ==
  IF IsNullish(value) THEN JsUndefined
  ELSE IF value.t = "object"
       THEN IF value.s = <<>> THEN JsUndefined ELSE JsNumber(value.s)
       ELSE value
\* lines 1765-1775, for the choices of the field ('' when it has none)
ChoiceFor(choices, scalar) ==
  IF \E i \in DOMAIN choices : TextOf(choices[i].value) = TextOf(scalar) THEN scalar
  ELSE LET byLabel == {i \in DOMAIN choices :
                         /\ choices[i].label # <<>>
                         /\ normalizeText(choices[i].label)
                              = normalizeText(trim(TextOf(scalar)))}
       IN IF byLabel = {} THEN scalar ELSE choices[MinOf(byLabel)].value
ChoicesOf(choicesBy, field) ==
  IF Has(choicesBy, field) THEN choicesBy.val[field] ELSE <<>>
mapChoiceIfNeeded(choicesBy, field, value) ==
  IF IsNullish(extractScalar(value)) THEN JsUndefined
  ELSE IF ChoicesOf(choicesBy, field) = <<>> THEN extractScalar(value)
  ELSE ChoiceFor(ChoicesOf(choicesBy, field), extractScalar(value))

\* lines 1777-1790: merged, from the current ticket
mergedOf(ticket, choicesBy) ==
  Assigned(
    <<<<"asuntos_default",
        mapChoiceIfNeeded(choicesBy, "asuntos_default",
          Coalesce(Get(ticket, "asuntos_default"), Get(ticket, "asuntosDefault")))>>,
      <<"asunto", Coalesce(extractScalar(Get(ticket, "asunto")), Get(ticket, "asunto"))>>,
      <<"tecnico", extractScalar(Get(ticket, "tecnico"))>>,
      <<"descripcion", Get(ticket, "descripcion")>>,
      <<"estado", mapChoiceIfNeeded(choicesBy, "estado", Get(ticket, "estado"))>>,
      <<"prioridad", mapChoiceIfNeeded(choicesBy, "prioridad", Get(ticket, "prioridad"))>>,
      <<"servicio", extractScalar(Get(ticket, "servicio"))>>,
      <<"fecha_inicio", Coalesce(Get(ticket, "fecha_inicio"), Get(ticket, "fechaInicio"))>>,
      <<"fecha_final", Coalesce(Get(ticket, "fecha_final"), Get(ticket, "fechaFinal"))>>,
      <<"origen_reporte",
        mapChoiceIfNeeded(choicesBy, "origen_reporte",
          Coalesce(Get(ticket, "origen_reporte"), Get(ticket, "origenReporte")))>>,
      <<"departamento",
        mapChoiceIfNeeded(choicesBy, "departamento", Get(ticket, "departamento"))>>,
      <<"email_tecnico",
        Coalesce(Get(ticket, "email_tecnico"), Get(ticket, "emailTecnico"))>>>>)
\* line 1793: Object.assign(merged, picked)
RECURSIVE AssignAllFrom(_, _, _)
AssignAllFrom(target, source, i) ==
  IF i > Len(source.keys) THEN target
  ELSE AssignAllFrom(SetField(target, source.keys[i], source.val[source.keys[i]]),
                     source, i + 1)
ObjectAssign(target, source) == AssignAllFrom(target, source, 1)
\* lines 1797-1798
DateNormalized(merged, k) ==
  IF Falsey(Get(merged, k)) THEN merged
  ELSE SetField(merged, k,
                Coalesce(normalizeWisphubDateTime(Get(merged, k)), Get(merged, k)))
\* lines 1801-1806, for what resolveWisphubTechnicianIdByName gives ('' for
\* nothing, or when it throws)
NeedsTechnicianId(merged) ==
  /\ ~Falsey(Get(merged, "tecnico"))
  /\ Get(merged, "tecnico").t = "string"
  /\ ~(trim(Get(merged, "tecnico").s) # <<>> /\ IsDigits(trim(Get(merged, "tecnico").s)))
TechnicianResolved(merged, resolvedTech) ==
  IF NeedsTechnicianId(merged) /\ resolvedTech # <<>>
  THEN SetField(merged, "tecnico", JsString(resolvedTech))
  ELSE merged
\* lines 1808-1813
RECURSIVE ChoicesMappedFrom(_, _, _)
ChoicesMappedFrom(merged, choicesBy, i) ==
  IF i > Len(merged.keys) THEN merged
  ELSE IF \/ IsNullish(merged.val[merged.keys[i]])
          \/ ChoicesOf(choicesBy, merged.keys[i]) = <<>>
  THEN ChoicesMappedFrom(merged, choicesBy, i + 1)
  ELSE ChoicesMappedFrom(
         SetField(merged, merged.keys[i],
                  mapChoiceIfNeeded(choicesBy, merged.keys[i],
                                    merged.val[merged.keys[i]])),
         choicesBy, i + 1)
\* lines 1777-1813: the payload of the PUT before it is cleaned
putPayloadOf(ticket, choicesBy, picked, resolvedTech) ==
  ChoicesMappedFrom(
    TechnicianResolved(
      DateNormalized(
        DateNormalized(ObjectAssign(mergedOf(ticket, choicesBy), picked),
                       "fecha_inicio"),
        "fecha_final"),
      resolvedTech),
    choicesBy, 1)


\* ---- the calls of this model
MaxTicketUpdates == 2
V_sin_internet == <<"S", "i", "n", " ", "i", "n", "t", "e", "r", "n", "e", "t">>
V_cerrado == <<"C", "e", "r", "r", "a", "d", "o">>
V_abierto == <<"A", "b", "i", "e", "r", "t", "o">>
V_baja == <<"B", "a", "j", "a">>
V_ana == <<"A", "n", "a", " ", "D", "i", "a", "z">>
V_padded == <<" ", "x", " ">>
V_mail_given == <<"q", "@", "g">>
V_mail_staff == <<"s", "@", "g">>
V_mail_ticket == <<"t", "@", "g">>
V_day_month == <<"0", "1", "/", "0", "2", "/", "2", "0", "2", "4", " ", "1", "0", ":", "3", "0">>
V_iso == <<"2", "0", "2", "4", "-", "0", "1", "-", "0", "1", "T", "0", "8", ":", "0", "0", ":", "0", "0">>
V_plain_date == <<"2", "0", "2", "4", "-", "0", "1", "-", "0", "1", " ", "0", "8", ":", "0", "0", ":", "0", "0">>
\* what the caller can put in updates
UpdatePairs ==
  <<<<"estado", JsNumber(<<"2">>)>>, <<"estado", JsString(<<>>)>>,
    <<"prioridad", JsString(V_baja)>>, <<"descripcion", JsString(V_padded)>>,
    <<"fechaInicio", JsString(V_day_month)>>, <<"tecnicoName", JsString(V_ana)>>,
    <<"email_tecnico", JsString(V_mail_given)>>>>
TicketUpdates ==
  {Assigned([i \in DOMAIN w |-> UpdatePairs[w[i]]] \o <<>>) :
     w \in {q \in Orderings(DOMAIN UpdatePairs, MaxTicketUpdates) :
              \A i \in DOMAIN q : \A j \in DOMAIN q :
                i < j => q[i] < q[j] /\ UpdatePairs[q[i]][1] # UpdatePairs[q[j]][1]}}
\* a ticket as the API gives it, and the same with one field in another form
BaseTicket ==
  Assigned(<<<<"id", JsNumber(<<"8">>)>>,
             <<"asunto", JsString(V_sin_internet)>>,
             <<"tecnico", JsNumber(<<"4">>)>>,
             <<"descripcion", JsString(<<"d">>)>>,
             <<"estado", JsNumber(<<"1">>)>>,
             <<"prioridad", JsNumber(<<"1">>)>>,
             <<"servicio", JsNumber(<<"9">>)>>,
             <<"fecha_inicio", JsString(V_plain_date)>>,
             <<"fecha_final", JsNull>>,
             <<"email_tecnico", JsString(V_mail_ticket)>>>>)
OtherForms ==
  {<<"estado", JsString(V_cerrado)>>, <<"servicio", JsObject(<<"7">>)>>,
   <<"servicio", JsObject(<<>>)>>, <<"fecha_inicio", JsString(V_iso)>>,
   <<"tecnico", JsString(V_ana)>>, <<"descripcion", JsString(V_padded)>>,
   <<"descripcion", JsString(NullText)>>, <<"asunto", JsObject(<<>>)>>}
CurrentTickets == {BaseTicket} \cup {SetField(BaseTicket, f[1], f[2]) : f \in OtherForms}
\* a response body that is no object
NotAnObject == [keys |-> <<>>, val |-> <<>>, text |-> TRUE]
Choice(value, label) == [value |-> value, label |-> label]
KnownChoices ==
  Assigned(<<<<"estado", <<Choice(JsNumber(<<"1">>), V_abierto),
                           Choice(JsNumber(<<"3">>), V_cerrado)>>>>,
             <<"prioridad", <<Choice(JsNumber(<<"1">>), V_baja)>>>>>>)
NoStaff == [id |-> <<>>, email |-> <<>>]
Staffs == {NoStaff, [id |-> <<"5">>, email |-> V_mail_staff], [id |-> <<"5">>, email |-> <<>>]}
PatchStatuses == {200, 400, 405}
Is2xx(status) == status >= 200 /\ status < 300
NoResult == [kind |-> "none", method |-> "", status |-> 0, sentFields |-> <<>>]
Threw(status) == [kind |-> "threw", method |-> "", status |-> status, sentFields |-> <<>>]
ReturnedBy(method, status, form) ==
  [kind |-> "returned", method |-> method, status |-> status,
   sentFields |-> [i \in DOMAIN form |-> form[i][1]] \o <<>>]

TicketRest ==
  /\ tkPc = "rest"
  /\ tkGiven = EmptyObject
  /\ tkUpdates = EmptyObject
  /\ hasFile = FALSE
  /\ tkRequests = <<>>
  /\ patchStatus = 0
  /\ normalizedUpdates = EmptyObject
  /\ current = EmptyObject
  /\ optionChoices = EmptyObject
  /\ putForm = <<>>
  /\ tkWarnings = <<>>
  /\ tkResult = NoResult
TicketInit ==
  /\ tkPc = "start"
  /\ tkUpdates \in TicketUpdates
  /\ tkGiven = tkUpdates
  /\ hasFile \in BOOLEAN
  /\ tkRequests = <<>>
  /\ patchStatus = 0
  /\ normalizedUpdates = EmptyObject
  /\ current = EmptyObject
  /\ optionChoices = EmptyObject
  /\ putForm = <<>>
  /\ tkWarnings = <<>>
  /\ tkResult = NoResult

\* String(updates.k ?? '').trim() !== ''
Given(updates, k) ==
  ~IsNullish(Get(updates, k)) /\ trim(TextOf(Get(updates, k))) # <<>>
\* lines 1515-1518
wantsTechnicianChange(updates) ==
  Given(updates, "tecnico") \/ Given(updates, "tecnicoId") \/ Given(updates, "tecnicoName")
TkEnd(result) == tkPc' = "done" /\ tkResult' = result

\* lines 1504-1510: the configuration
TkStart ==
  /\ tkPc = "start"
  /\ UNCHANGED tkGiven
  /\ \E apiKey \in BOOLEAN :
       IF ~apiKey THEN TkEnd(Threw(500))
       ELSE /\ tkPc' = IF wantsTechnicianChange(tkUpdates) THEN "before" ELSE "patch"
            /\ UNCHANGED tkResult
  /\ UNCHANGED <<tkUpdates, hasFile, tkRequests, patchStatus, normalizedUpdates, current,
                 optionChoices, putForm, tkWarnings>>
\* lines 1520-1533: the technician before the change; a failure is ignored
TkGetBefore ==
  /\ tkPc = "before"
  /\ UNCHANGED tkGiven
  /\ tkRequests' = Append(tkRequests, "GET")
  /\ tkPc' = IF Given(tkUpdates, "tecnicoName") THEN "staff" ELSE "patch"
  /\ UNCHANGED <<tkUpdates, hasFile, patchStatus, normalizedUpdates, current,
                 optionChoices, putForm, tkWarnings, tkResult>>
\* lines 1537-1549: the staff of that name, and the e-mail taken from it
TkResolveStaff ==
  /\ tkPc = "staff"
  /\ UNCHANGED tkGiven
  /\ tkRequests' = Append(tkRequests, "GET staff")
  /\ \E staff \in Staffs :
       /\ tkUpdates' =
            IF /\ staff # NoStaff
               /\ staff.email # <<>>
               /\ ~Given(tkUpdates, "email_tecnico") /\ ~Given(tkUpdates, "emailTecnico")
            THEN SetField(tkUpdates, "email_tecnico", JsString(staff.email))
            ELSE tkUpdates
       /\ tkWarnings' = IF staff = NoStaff THEN Append(tkWarnings, "no staff") ELSE tkWarnings
  /\ tkPc' = "patch"
  /\ UNCHANGED <<hasFile, patchStatus, normalizedUpdates, current, optionChoices, putForm,
                 tkResult>>
\* lines 1664-1676: PATCH is followed by PUT
forcePutKeys == {"estado", "fecha_inicio", "fecha_final"}
patchNotAllowedOnly405(status, picked) == status = 405
patchNotAllowed(status, picked) ==
  \/ status = 405
  \/ Is2xx(status) /\ \E k \in forcePutKeys : Has(picked, k)
\* lines 1551-1676: the PATCH with the picked fields, and what follows it
TkPatch ==
  /\ tkPc = "patch"
  /\ UNCHANGED tkGiven
  /\ normalizedUpdates' = normalizedUpdatesOf(tkUpdates)
  /\ tkRequests' = Append(tkRequests, "PATCH")
  /\ \E status \in PatchStatuses :
       LET picked == normalizedUpdatesOf(tkUpdates)
           forced == status # 405 /\ patchNotAllowed(status, picked)
       IN /\ patchStatus' = status
          /\ tkWarnings' = IF forced THEN Append(tkWarnings, "forcing PUT") ELSE tkWarnings
          /\ IF patchNotAllowed(status, picked)
             THEN tkPc' = "current" /\ UNCHANGED tkResult
             ELSE IF wantsTechnicianChange(tkUpdates)
             THEN tkPc' = "readonly" /\ UNCHANGED tkResult
             ELSE TkEnd(ReturnedBy("PATCH", status, buildMultipart(picked, hasFile)))
  /\ UNCHANGED <<tkUpdates, hasFile, current, optionChoices, putForm>>
\* lines 1679-1686: the current ticket
TkGetCurrent ==
  /\ tkPc = "current"
  /\ UNCHANGED tkGiven
  /\ tkRequests' = Append(tkRequests, "GET")
  /\ \E status \in {200, 404}, data \in CurrentTickets \cup {NotAnObject} :
       IF Is2xx(status) /\ data # NotAnObject
       THEN /\ current' = data
            /\ tkPc' = "options"
            /\ UNCHANGED tkResult
       ELSE /\ UNCHANGED current
            /\ IF wantsTechnicianChange(tkUpdates)
               THEN tkPc' = "readonly" /\ UNCHANGED tkResult
               ELSE TkEnd(ReturnedBy("PATCH", patchStatus,
                                     buildMultipart(normalizedUpdates, hasFile)))
  /\ UNCHANGED <<tkUpdates, hasFile, patchStatus, normalizedUpdates, optionChoices, putForm,
                 tkWarnings>>
\* lines 1688-1746: the choices, from OPTIONS on the ticket, else on the list
TkOptions ==
  /\ tkPc = "options"
  /\ UNCHANGED tkGiven
  /\ \E detail \in {EmptyObject, KnownChoices}, base \in {EmptyObject, KnownChoices} :
       /\ optionChoices' = IF detail # EmptyObject THEN detail ELSE base
       /\ tkRequests' = IF detail # EmptyObject THEN Append(tkRequests, "OPTIONS")
                        ELSE tkRequests \o <<"OPTIONS", "OPTIONS list">>
  /\ tkPc' = "put"
  /\ UNCHANGED <<tkUpdates, hasFile, patchStatus, normalizedUpdates, current, putForm,
                 tkWarnings, tkResult>>
\* lines 1748-1871: the merged payload, the PUT and the result
TkPut ==
  /\ tkPc = "put"
  /\ UNCHANGED tkGiven
  /\ \E resolvedTech \in {<<>>, <<"5">>}, status \in {200, 400} :
       LET merged == ObjectAssign(mergedOf(current, optionChoices), normalizedUpdates)
           payload == putPayloadOf(current, optionChoices, normalizedUpdates, resolvedTech)
           form == buildMultipart(IF hasFile THEN payload ELSE cleaned(payload), hasFile)
           dated == DateNormalized(DateNormalized(merged, "fecha_inicio"), "fecha_final")
       IN /\ tkRequests' = IF NeedsTechnicianId(dated)
                           THEN tkRequests \o <<"GET staff", "PUT">>
                           ELSE Append(tkRequests, "PUT")
          /\ putForm' = form
          /\ TkEnd(ReturnedBy("PUT", status, form))
  /\ tkWarnings' = IF wantsTechnicianChange(tkUpdates) THEN Append(tkWarnings, "PUT used")
                   ELSE tkWarnings
  /\ UNCHANGED <<tkUpdates, hasFile, patchStatus, normalizedUpdates, current,
                 optionChoices>>
\* lines 1874-1912: whether tecnico is read-only, and the PATCH result
TkReadOnly ==
  /\ tkPc = "readonly"
  /\ UNCHANGED tkGiven
  /\ tkRequests' = Append(tkRequests, "OPTIONS")
  /\ \E warned \in {"", "read only", "not changed"} :
       tkWarnings' = IF warned = "" THEN tkWarnings ELSE Append(tkWarnings, warned)
  /\ TkEnd(ReturnedBy("PATCH", patchStatus, buildMultipart(normalizedUpdates, hasFile)))
  /\ UNCHANGED <<tkUpdates, hasFile, patchStatus, normalizedUpdates, current,
                 optionChoices, putForm>>

\* ------------------------------------------------------------ uploaded files
\* the file fields of createRequest, in the order it saves them (lines 323-338)
FileFields == <<"idFront", "idBack", "addressProof", "coupon">>
FileFieldSet == {FileFields[i] : i \in DOMAIN FileFields}
\* what a file field or archivoTicket holds: a Buffer, a file name or nothing
DataKinds == {"buffer", "name", "absent"}
\* the name saveFile gives the file of a field, or of an attempt of crearTicket
TicketFile(att) == IF att = 1 THEN "ticket1" ELSE "ticket2"
TicketFiles == {TicketFile(att) : att \in 1..ReloginAttempts}
NoFile == ""
NoEnding == [kind |-> "none", error |-> "", status |-> 0]
ThrewError(error) == [kind |-> "threw", error |-> error, status |-> 0]
ReturnedStatus(status) == [kind |-> "returned", error |-> "", status |-> status]
NoWisphubResult == [hasStatus |-> FALSE, status |-> 0, skipped |-> FALSE]

FilesRest ==
  /\ fileOp = "none"
  /\ filePc = "rest"
  /\ uploads = {}
  /\ unlinkFails = {}
  /\ deleteCalls = <<>>
  /\ requestData = [f \in FileFieldSet |-> "absent"]
  /\ savedFiles = <<>>
  /\ wisphubCall = "none"
  /\ wisphubResult = NoWisphubResult
  /\ stored = FALSE
  /\ pendingError = ""
  /\ archivoTicket = "absent"
  /\ ctAttempt = 1
  /\ tempSavedFileName = NoFile
  /\ staged = {}
  /\ bodyOutcome = NoEnding
  /\ fileResult = NoEnding
FilesInit ==
  /\ fileOp \in {"createRequest", "crearTicket"}
  /\ filePc = IF fileOp = "createRequest" THEN "start" ELSE "ctForm"
  /\ uploads = {}
  /\ unlinkFails \in IF fileOp = "createRequest" THEN SUBSET FileFieldSet
                                                 ELSE SUBSET TicketFiles
  /\ deleteCalls = <<>>
  /\ requestData \in IF fileOp = "createRequest" THEN [FileFieldSet -> DataKinds]
                     ELSE {[f \in FileFieldSet |-> "absent"]}
  /\ savedFiles = <<>>
  /\ wisphubCall = "none"
  /\ wisphubResult = NoWisphubResult
  /\ stored = FALSE
  /\ pendingError = ""
  /\ archivoTicket \in IF fileOp = "crearTicket" THEN DataKinds ELSE {"absent"}
  /\ ctAttempt = 1
  /\ tempSavedFileName = NoFile
  /\ staged = {}
  /\ bodyOutcome = NoEnding
  /\ fileResult = NoEnding

FilesEnd(result) == filePc' = "done" /\ fileResult' = result
RangeOf(q) == {q[i] : i \in DOMAIN q}
\* FileService.deleteFile throws when the file is there and unlinkSync throws
deleteFileThrows(dir, failing, fileName) ==
  fileName # NoFile /\ fileName \in dir /\ fileName \in failing
\* the uploads directory after deleteFile(fileName)
deleteFile(dir, failing, fileName) ==
  IF deleteFileThrows(dir, failing, fileName) THEN dir ELSE dir \ {fileName}
\* files.forEach((f) => deleteFile(f)) without a try: the calls made, up to and
\* with the first that throws
CallsUntilThrow(dir, failing, files) ==
  LET throwing == {i \in DOMAIN files : deleteFileThrows(dir, failing, files[i])}
  IN IF throwing = {} THEN files ELSE SubSeq(files, 1, MinOf(throwing))
\* the directory after deleteFile was called, a throw swallowed or not, on each
DeletedEach(dir, failing, files) ==
  dir \ {f \in RangeOf(files) : ~deleteFileThrows(dir, failing, f)}

\* line 305: ensureDataSource, before the try
CrStart ==
  /\ fileOp = "createRequest"
  /\ filePc = "start"
  /\ \E ok \in BOOLEAN :
       IF ok THEN filePc' = "save" /\ UNCHANGED fileResult
       ELSE FilesEnd(ThrewError("datasource"))
  /\ UNCHANGED <<fileOp, uploads, unlinkFails, deleteCalls, requestData, savedFiles,
                 wisphubCall, wisphubResult, stored, pendingError, archivoTicket,
                 ctAttempt, tempSavedFileName, staged, bodyOutcome>>
\* lines 323-338: each Buffer is saved and its name pushed, until a save throws
CrSaveFiles ==
  /\ fileOp = "createRequest"
  /\ filePc = "save"
  /\ LET buffers == SelectSeq(FileFields, LAMBDA f : requestData[f] = "buffer")
     IN \E written \in 0..Len(buffers) :
          /\ savedFiles' = SubSeq(buffers, 1, written)
          /\ uploads' = uploads \cup {buffers[i] : i \in 1..written}
          /\ requestData' = [f \in FileFieldSet |->
                               IF f \in {buffers[i] : i \in 1..written} THEN "name"
                               ELSE requestData[f]]
          /\ IF written < Len(buffers)
             THEN pendingError' = "save" /\ filePc' = "catch"
             ELSE filePc' = "notify" /\ UNCHANGED pendingError
  /\ UNCHANGED <<fileOp, unlinkFails, deleteCalls, wisphubCall, wisphubResult, stored,
                 archivoTicket, ctAttempt, tempSavedFileName, staged, bodyOutcome,
                 fileResult>>
\* notifyWisphub, lines 1914-2009: no configuration, an answer, or a request
\* that throws without a response
notifyWisphub(call, status) ==
  CASE call = "skipped" -> [hasStatus |-> FALSE, status |-> 0, skipped |-> TRUE]
    [] call = "answered" -> [hasStatus |-> TRUE, status |-> status, skipped |-> FALSE]
    [] OTHER -> [hasStatus |-> FALSE, status |-> 0, skipped |-> FALSE]
\* line 342: !wisphubResult || (status !== null && status >= 400)
wisphubFailed(result) == result.hasStatus /\ result.status >= 400
\* lines 340-349: the Wisphub request, and the files deleted when it failed
CrNotify ==
  /\ fileOp = "createRequest"
  /\ filePc = "notify"
  /\ \E call \in {"skipped", "answered", "threw"} : \E status \in {200, 400, 500} :
       /\ wisphubCall' = call
       /\ wisphubResult' = notifyWisphub(call, status)
       /\ IF wisphubFailed(notifyWisphub(call, status))
          THEN /\ deleteCalls' =
                    deleteCalls \o CallsUntilThrow(uploads, unlinkFails, savedFiles)
               /\ uploads' =
                    DeletedEach(uploads, unlinkFails,
                                CallsUntilThrow(uploads, unlinkFails, savedFiles))
               /\ pendingError' =
                    IF \E i \in DOMAIN savedFiles :
                         deleteFileThrows(uploads, unlinkFails, savedFiles[i])
                    THEN "unlink" ELSE "wisphub"
               /\ filePc' = "catch"
          ELSE /\ filePc' = "persist"
               /\ UNCHANGED <<deleteCalls, uploads, pendingError>>
  /\ UNCHANGED <<fileOp, unlinkFails, requestData, savedFiles, stored, archivoTicket,
                 ctAttempt, tempSavedFileName, staged, bodyOutcome, fileResult>>
\* lines 351-357: the request is saved to the store
CrPersist ==
  /\ fileOp = "createRequest"
  /\ filePc = "persist"
  /\ \E ok \in BOOLEAN :
       IF ok THEN /\ stored' = TRUE
                  /\ FilesEnd(ReturnedStatus(0))
                  /\ UNCHANGED pendingError
       ELSE /\ pendingError' = "db"
            /\ filePc' = "catch"
            /\ UNCHANGED <<stored, fileResult>>
  /\ UNCHANGED <<fileOp, uploads, unlinkFails, deleteCalls, requestData, savedFiles,
                 wisphubCall, wisphubResult, archivoTicket, ctAttempt,
                 tempSavedFileName, staged, bodyOutcome>>
\* what the catch of createRequest leaves in the uploads directory
CatchKeepsFiles(dir, failing, files) == dir
CatchDeletes(dir, failing, files) == DeletedEach(dir, failing, files)
\* lines 359-367: every saved file is deleted, a throw swallowed; e is thrown
CrCatch ==
  /\ fileOp = "createRequest"
  /\ filePc = "catch"
  /\ deleteCalls' = deleteCalls \o savedFiles
  /\ uploads' = CatchDeletes(uploads, unlinkFails, savedFiles)
  /\ FilesEnd(ThrewError(pendingError))
  /\ UNCHANGED <<fileOp, unlinkFails, requestData, savedFiles, wisphubCall,
                 wisphubResult, stored, pendingError, archivoTicket, ctAttempt,
                 tempSavedFileName, staged, bodyOutcome>>

\* lines 553-687: the ticket form is fetched and the fields are resolved
CtGetForm ==
  /\ fileOp = "crearTicket"
  /\ filePc = "ctForm"
  /\ \E ending \in {"ok", "auth", "other"} :
       IF ending = "ok" THEN filePc' = "ctStage" /\ UNCHANGED bodyOutcome
       ELSE filePc' = "ctFinally" /\ bodyOutcome' = ThrewError(ending)
  /\ UNCHANGED <<fileOp, uploads, unlinkFails, deleteCalls, requestData, savedFiles,
                 wisphubCall, wisphubResult, stored, pendingError, archivoTicket,
                 ctAttempt, tempSavedFileName, staged, fileResult>>
\* lines 688-705: a Buffer is saved as a temporary file
CtStage ==
  /\ fileOp = "crearTicket"
  /\ filePc = "ctStage"
  /\ IF archivoTicket = "buffer"
     THEN \E ok \in BOOLEAN :
            IF ok THEN /\ tempSavedFileName' = TicketFile(ctAttempt)
                       /\ uploads' = uploads \cup {TicketFile(ctAttempt)}
                       /\ staged' = staged \cup {TicketFile(ctAttempt)}
                       /\ filePc' = "ctPost"
                       /\ UNCHANGED bodyOutcome
            ELSE /\ bodyOutcome' = ThrewError("save")
                 /\ filePc' = "ctFinally"
                 /\ UNCHANGED <<tempSavedFileName, uploads, staged>>
     ELSE /\ filePc' = "ctPost"
          /\ UNCHANGED <<tempSavedFileName, uploads, staged, bodyOutcome>>
  /\ UNCHANGED <<fileOp, unlinkFails, deleteCalls, requestData, savedFiles, wisphubCall,
                 wisphubResult, stored, pendingError, archivoTicket, ctAttempt,
                 fileResult>>
\* lines 707-765: the POST, its checks and the result
CtPost ==
  /\ fileOp = "crearTicket"
  /\ filePc = "ctPost"
  /\ \E ending \in {ReturnedStatus(200), ReturnedStatus(400), ThrewError("auth"),
                    ThrewError("other")} :
       bodyOutcome' = ending
  /\ filePc' = "ctFinally"
  /\ UNCHANGED <<fileOp, uploads, unlinkFails, deleteCalls, requestData, savedFiles,
                 wisphubCall, wisphubResult, stored, pendingError, archivoTicket,
                 ctAttempt, tempSavedFileName, staged, fileResult>>
\* how fn ends after its finally, which swallows what deleteFile throws
finallyOutcomeNotSwallowed(body, deleteThrew) ==
  IF deleteThrew THEN ThrewError("unlink") ELSE body
finallyOutcome(body, deleteThrew) == body
\* lines 766-772 and 284-299: the temporary file is deleted, then
\* withGeonetRelogin runs fn again after an auth error or ends
CtFinally ==
  /\ fileOp = "crearTicket"
  /\ filePc = "ctFinally"
  /\ deleteCalls' = IF tempSavedFileName # NoFile
                    THEN Append(deleteCalls, tempSavedFileName) ELSE deleteCalls
  /\ uploads' = IF tempSavedFileName # NoFile
                THEN deleteFile(uploads, unlinkFails, tempSavedFileName) ELSE uploads
  /\ tempSavedFileName' = NoFile
  /\ LET fnOutcome ==
           finallyOutcome(bodyOutcome,
                          deleteFileThrows(uploads, unlinkFails, tempSavedFileName))
     IN IF ReloginRetry(fnOutcome = ThrewError("auth"), ctAttempt)
        THEN /\ ctAttempt' = ctAttempt + 1
             /\ filePc' = "ctForm"
             /\ UNCHANGED fileResult
        ELSE /\ FilesEnd(fnOutcome)
             /\ UNCHANGED ctAttempt
  /\ UNCHANGED <<fileOp, unlinkFails, requestData, savedFiles, wisphubCall,
                 wisphubResult, stored, pendingError, archivoTicket, staged,
                 bodyOutcome>>

\* ------------------------------------------------------------ SmartOLT cache
NumOdbCallers == 4
MaxLoaders == 3
MaxOdbTicks == 2
\* getOdbs: options?.cacheTtlMs ?? 5 * 60_000
cacheTtlMs == 5 * 60000
OdbCallers == 1..NumOdbCallers
LoaderIds == 1..MaxLoaders
NoLoader == 0
\* what a loader resolves with: the list of one upstream answer, or []
NoValue == [kind |-> "undefined", from |-> NoLoader]
OdbList(id) == [kind |-> "list", from |-> id]
EmptyList(id) == [kind |-> "empty", from |-> id]
Rejection(id) == [kind |-> "rejected", from |-> id]
\* smartoltCache.get(key): no entry, or value, expires and pending
NoEntry == [present |-> FALSE, value |-> NoValue, expires |-> 0, pending |-> NoLoader]
Entry(value, expires, pending) ==
  [present |-> TRUE, value |-> value, expires |-> expires, pending |-> pending]

OdbRest ==
  /\ smartoltCache = NoEntry
  /\ loaderIs = "fetchOdbs"
  /\ configured = TRUE
  /\ odbNow = 0
  /\ odbTicks = 0
  /\ loaderState = [id \in LoaderIds |-> "none"]
  /\ loaderValue = [id \in LoaderIds |-> NoValue]
  /\ lastUpstream = "none"
  /\ odbPc = [p \in OdbCallers |-> "rest"]
  /\ odbAwait = [p \in OdbCallers |-> NoLoader]
  /\ odbGot = [p \in OdbCallers |-> NoValue]
OdbInit ==
  /\ smartoltCache = NoEntry
  /\ loaderIs \in {"fetchOdbs", "any"}
  /\ configured \in BOOLEAN
  /\ odbNow = 0
  /\ odbTicks = 0
  /\ loaderState = [id \in LoaderIds |-> "none"]
  /\ loaderValue = [id \in LoaderIds |-> NoValue]
  /\ lastUpstream = "none"
  /\ odbPc = [p \in OdbCallers |-> "idle"]
  /\ odbAwait = [p \in OdbCallers |-> NoLoader]
  /\ odbGot = [p \in OdbCallers |-> NoValue]

\* line 79: entry && entry.expires > now
servesCached(entry, time) == entry.present /\ entry.expires > time
\* line 80: entry?.pending
joinsPendingNever(entry) == FALSE
joinsPending(entry) == entry.present /\ entry.pending # NoLoader
\* line 92: the entry that holds the promise
PendingEntry(entry, id) == Entry(entry.value, entry.expires, id)
\* line 168: fetchOdbs throws before its request when the configuration
\* is missing; another loader starts its work
rejectsAtOnce(loader, isConfigured) == loader = "fetchOdbs" /\ ~isConfigured
NextLoader == CHOOSE id \in LoaderIds :
                /\ loaderState[id] = "none"
                /\ \A other \in LoaderIds : loaderState[other] = "none" => id <= other
\* fromCache(key, ttlMs, loader), lines 76-94, called by p: the cached value,
\* the pending promise, or a call of the loader (whose catch deletes the entry
\* in the same turn when the loader has rejected at once)
fromCache(p) ==
  /\ odbPc[p] = "idle"
  /\ IF servesCached(smartoltCache, odbNow)
     THEN /\ odbGot' = [odbGot EXCEPT ![p] = smartoltCache.value]
          /\ odbPc' = [odbPc EXCEPT ![p] = "done"]
          /\ UNCHANGED <<smartoltCache, loaderState, odbAwait>>
     ELSE IF joinsPending(smartoltCache)
     THEN /\ odbAwait' = [odbAwait EXCEPT ![p] = smartoltCache.pending]
          /\ odbPc' = [odbPc EXCEPT ![p] = "waiting"]
          /\ UNCHANGED <<smartoltCache, loaderState, odbGot>>
     ELSE /\ \E id \in LoaderIds : loaderState[id] = "none"
          /\ odbAwait' = [odbAwait EXCEPT ![p] = NextLoader]
          /\ IF rejectsAtOnce(loaderIs, configured)
             THEN /\ loaderState' = [loaderState EXCEPT ![NextLoader] = "rejected"]
                  /\ smartoltCache' = NoEntry
                  /\ odbGot' = [odbGot EXCEPT ![p] = Rejection(NextLoader)]
                  /\ odbPc' = [odbPc EXCEPT ![p] = "done"]
             ELSE /\ loaderState' = [loaderState EXCEPT ![NextLoader] = "running"]
                  /\ smartoltCache' = PendingEntry(smartoltCache, NextLoader)
                  /\ odbPc' = [odbPc EXCEPT ![p] = "waiting"]
                  /\ UNCHANGED odbGot
  /\ UNCHANGED <<loaderIs, configured, odbNow, odbTicks, loaderValue, lastUpstream>>
\* lines 169-196: what fetchOdbs resolves with for an answer of the upstream
\* request: the list, or [] for an unexpected body and for a request that failed
fetchOdbs(id, upstream) == IF upstream = "ok" THEN OdbList(id) ELSE EmptyList(id)
\* lines 83-86: the loader of call id resolves, and the entry is written
LoaderResolves(id) ==
  /\ loaderState[id] = "running"
  /\ \E upstream \in {"ok", "unexpected", "failed"} :
       /\ loaderValue' = [loaderValue EXCEPT ![id] = fetchOdbs(id, upstream)]
       /\ smartoltCache' = Entry(fetchOdbs(id, upstream), odbNow + cacheTtlMs, NoLoader)
       /\ lastUpstream' = IF loaderIs = "fetchOdbs" THEN upstream ELSE lastUpstream
  /\ loaderState' = [loaderState EXCEPT ![id] = "resolved"]
  /\ UNCHANGED <<loaderIs, configured, odbNow, odbTicks, odbPc, odbAwait, odbGot>>
\* what the catch of the loader's promise leaves in the cache
catchDeletes(entry) == NoEntry
\* lines 87-90: a loader that is not fetchOdbs rejects, and the entry is deleted
LoaderRejects(id) ==
  /\ loaderIs = "any"
  /\ loaderState[id] = "running"
  /\ loaderState' = [loaderState EXCEPT ![id] = "rejected"]
  /\ smartoltCache' = catchDeletes(smartoltCache)
  /\ UNCHANGED <<loaderIs, configured, odbNow, odbTicks, loaderValue, lastUpstream,
                 odbPc, odbAwait, odbGot>>
\* a caller that was given the promise of a loader call resumes
OdbResume(p) ==
  /\ odbPc[p] = "waiting"
  /\ loaderState[odbAwait[p]] \in {"resolved", "rejected"}
  /\ odbGot' = [odbGot EXCEPT ![p] =
                  IF loaderState[odbAwait[p]] = "resolved" THEN loaderValue[odbAwait[p]]
                  ELSE Rejection(odbAwait[p])]
  /\ odbPc' = [odbPc EXCEPT ![p] = "done"]
  /\ UNCHANGED <<smartoltCache, loaderIs, configured, odbNow, odbTicks, loaderState,
                 loaderValue, lastUpstream, odbAwait>>
\* time passes: a millisecond, or a millisecond less than the time a value is kept
OdbTick ==
  /\ odbTicks < MaxOdbTicks
  /\ \E d \in {1, cacheTtlMs - 1} : odbNow' = odbNow + d
  /\ odbTicks' = odbTicks + 1
  /\ UNCHANGED <<smartoltCache, loaderIs, configured, loaderState, loaderValue,
                 lastUpstream, odbPc, odbAwait, odbGot>>

\* ------------------------------------------------------------ specifications
nonSessVars ==
  <<retryVars, wfVars, actVars, editVars, postVars, snapVars, mergeVars, resolveVars, ticketVars, fileVars, odbVars>>
nonRetryVars ==
  <<sessVars, wfVars, actVars, editVars, postVars, snapVars, mergeVars, resolveVars, ticketVars, fileVars, odbVars>>
nonWfVars ==
  <<sessVars, retryVars, snapVars, mergeVars, resolveVars, ticketVars, fileVars, odbVars>>
nonSnapVars ==
  <<sessVars, retryVars, wfVars, actVars, editVars, postVars, mergeVars, resolveVars, ticketVars, fileVars, odbVars>>
nonMergeVars ==
  <<sessVars, retryVars, wfVars, actVars, editVars, postVars, snapVars, resolveVars, ticketVars, fileVars, odbVars>>
nonTicketVars ==
  <<sessVars, retryVars, wfVars, actVars, editVars, postVars, snapVars, mergeVars,
    resolveVars, fileVars, odbVars>>
nonFileVars ==
  <<sessVars, retryVars, wfVars, actVars, editVars, postVars, snapVars, mergeVars,
    resolveVars, ticketVars, odbVars>>
nonOdbVars ==
  <<sessVars, retryVars, wfVars, actVars, editVars, postVars, snapVars, mergeVars,
    resolveVars, ticketVars, fileVars>>
nonResolveVars ==
  <<sessVars, retryVars, wfVars, actVars, editVars, postVars, snapVars, mergeVars, ticketVars, fileVars, odbVars>>

InitSession ==
  SessionInit /\ RetryRest /\ WfRest /\ SnapRest /\ MergeRest /\ ResolveRest /\ TicketRest /\ FilesRest /\ OdbRest
NextSession ==
  \/ \E p \in Callers : Call(p) /\ UNCHANGED nonSessVars
  \/ \E p \in Callers : OwnerResume(p) /\ UNCHANGED nonSessVars
  \/ \E p \in Callers : WaiterResume(p) /\ UNCHANGED nonSessVars
  \/ \E p \in Callers : FnReturn(p) /\ UNCHANGED nonSessVars
  \/ \E l \in LoginIds : LoginGetDone(l) /\ UNCHANGED nonSessVars
  \/ \E l \in LoginIds : LoginPostDone(l) /\ UNCHANGED nonSessVars
  \/ \E c \in LoginIds : ExpireSession(c) /\ UNCHANGED nonSessVars
  \/ Tick /\ UNCHANGED nonSessVars
SpecSession == InitSession /\ [][NextSession]_vars

InitRetry ==
  RetryInit /\ SessionRest /\ WfRest /\ SnapRest /\ MergeRest /\ ResolveRest /\ TicketRest /\ FilesRest /\ OdbRest
NextRetry ==
  \/ \E o \in Outcomes : RetryAttempt(o) /\ UNCHANGED nonRetryVars
  \/ RetryWake /\ UNCHANGED nonRetryVars
SpecRetry == InitRetry /\ [][NextRetry]_vars

InitWorkflow ==
  WorkflowInit /\ SessionRest /\ RetryRest /\ SnapRest /\ MergeRest /\ ResolveRest /\ TicketRest /\ FilesRest /\ OdbRest
NextWorkflow ==
  \/ WfGetClient /\ UNCHANGED <<nonWfVars, postVars>>
  \/ WfExpireSession /\ UNCHANGED <<nonWfVars, postVars>>
  \/ DbChange /\ UNCHANGED <<nonWfVars, postVars>>
  \/ ActResolveRecord /\ UNCHANGED <<nonWfVars, editVars, postVars>>
  \/ ActFnStart /\ UNCHANGED <<nonWfVars, editVars, postVars>>
  \/ ActGetList /\ UNCHANGED <<nonWfVars, editVars, postVars>>
  \/ ActGetActivation /\ UNCHANGED <<nonWfVars, editVars, postVars>>
  \/ ActReadRow /\ UNCHANGED <<nonWfVars, editVars, postVars>>
  \/ ActGetCsrf /\ UNCHANGED <<nonWfVars, editVars, postVars>>
  \/ ActPost /\ UNCHANGED <<nonWfVars, editVars>>
  \/ EditValidate /\ UNCHANGED <<nonWfVars, postVars>>
  \/ EditFnStart /\ UNCHANGED <<nonWfVars, postVars>>
  \/ EditGetForm /\ UNCHANGED <<nonWfVars, postVars>>
  \/ EditReload /\ UNCHANGED <<nonWfVars, postVars>>
  \/ EditPost /\ UNCHANGED nonWfVars
  \/ EditConfirm /\ UNCHANGED <<nonWfVars, postVars>>
  \/ TicketStart /\ UNCHANGED <<nonWfVars, postVars>>
  \/ TicketGetForm /\ UNCHANGED <<nonWfVars, postVars>>
  \/ TicketPost /\ UNCHANGED nonWfVars
  \/ DeleteValidate /\ UNCHANGED <<nonWfVars, postVars>>
  \/ DeleteGetForm /\ UNCHANGED <<nonWfVars, postVars>>
  \/ DeletePost /\ UNCHANGED nonWfVars
SpecWorkflow == InitWorkflow /\ [][NextWorkflow]_vars

InitSnapshot ==
  SnapshotInit /\ SessionRest /\ RetryRest /\ WfRest /\ MergeRest /\ ResolveRest /\ TicketRest /\ FilesRest /\ OdbRest
NextSnapshot ==
  \/ EditSnapshot /\ UNCHANGED nonSnapVars
  \/ ExtractSnapshot /\ UNCHANGED nonSnapVars
SpecSnapshot == InitSnapshot /\ [][NextSnapshot]_vars

InitMerge ==
  MergeInit /\ SessionRest /\ RetryRest /\ WfRest /\ SnapRest /\ ResolveRest /\ TicketRest /\ FilesRest /\ OdbRest
NextMerge ==
  \/ MergeStart /\ UNCHANGED nonMergeVars
  \/ MergeTecnico /\ UNCHANGED nonMergeVars
  \/ MergePost /\ UNCHANGED nonMergeVars
  \/ MergeEmpty /\ UNCHANGED nonMergeVars
SpecMerge == InitMerge /\ [][NextMerge]_vars

InitResolve ==
  ResolveInit /\ SessionRest /\ RetryRest /\ WfRest /\ SnapRest /\ MergeRest
  /\ TicketRest /\ FilesRest /\ OdbRest
NextResolve ==
  \/ ResolveTecnico /\ UNCHANGED nonResolveVars
  \/ ResolvePlan /\ UNCHANGED nonResolveVars
  \/ ResolveRouter /\ UNCHANGED nonResolveVars
  \/ ResolveZona /\ UNCHANGED nonResolveVars
  \/ ResolveAp /\ UNCHANGED nonResolveVars
  \/ ResolvePost /\ UNCHANGED nonResolveVars
  \/ ScoreCall /\ UNCHANGED nonResolveVars
  \/ ReorderCall /\ UNCHANGED nonResolveVars
SpecResolve == InitResolve /\ [][NextResolve]_vars

InitTicket ==
  TicketInit /\ SessionRest /\ RetryRest /\ WfRest /\ SnapRest /\ MergeRest
  /\ ResolveRest /\ FilesRest /\ OdbRest
NextTicket ==
  \/ TkStart /\ UNCHANGED nonTicketVars
  \/ TkGetBefore /\ UNCHANGED nonTicketVars
  \/ TkResolveStaff /\ UNCHANGED nonTicketVars
  \/ TkPatch /\ UNCHANGED nonTicketVars
  \/ TkGetCurrent /\ UNCHANGED nonTicketVars
  \/ TkOptions /\ UNCHANGED nonTicketVars
  \/ TkPut /\ UNCHANGED nonTicketVars
  \/ TkReadOnly /\ UNCHANGED nonTicketVars
SpecTicket == InitTicket /\ [][NextTicket]_vars

InitFiles ==
  FilesInit /\ SessionRest /\ RetryRest /\ WfRest /\ SnapRest /\ MergeRest
  /\ ResolveRest /\ TicketRest /\ OdbRest
NextFiles ==
  \/ CrStart /\ UNCHANGED nonFileVars
  \/ CrSaveFiles /\ UNCHANGED nonFileVars
  \/ CrNotify /\ UNCHANGED nonFileVars
  \/ CrPersist /\ UNCHANGED nonFileVars
  \/ CrCatch /\ UNCHANGED nonFileVars
  \/ CtGetForm /\ UNCHANGED nonFileVars
  \/ CtStage /\ UNCHANGED nonFileVars
  \/ CtPost /\ UNCHANGED nonFileVars
  \/ CtFinally /\ UNCHANGED nonFileVars
SpecFiles == InitFiles /\ [][NextFiles]_vars

InitOdb ==
  OdbInit /\ SessionRest /\ RetryRest /\ WfRest /\ SnapRest /\ MergeRest
  /\ ResolveRest /\ TicketRest /\ FilesRest
NextOdb ==
  \/ \E p \in OdbCallers : fromCache(p) /\ UNCHANGED nonOdbVars
  \/ \E id \in LoaderIds : LoaderResolves(id) /\ UNCHANGED nonOdbVars
  \/ \E id \in LoaderIds : LoaderRejects(id) /\ UNCHANGED nonOdbVars
  \/ \E p \in OdbCallers : OdbResume(p) /\ UNCHANGED nonOdbVars
  \/ OdbTick /\ UNCHANGED nonOdbVars
SpecOdb == InitOdb /\ [][NextOdb]_vars

\* ------------------------------------------------------------ session claims
LoginsStartedBy(p) == {l \in LoginIds : loginBy[l] = p}
Waiting(p) == pc[p] \in {"own", "wait"}

\* C1 (as claimed): callers whose first run raised a session-expiry error on
\* the same client all continue with the client of one single login, so no two
\* of them are bound to different re-logins.
C1_OneReloginForAll ==
  \A p \in Callers : \A q \in Callers :
    ( /\ p # q
      /\ attempt[p] = 2 /\ attempt[q] = 2
      /\ firstResult[p] = "auth" /\ firstResult[q] = "auth"
      /\ firstClient[p] = firstClient[q] )
    => relogin[p] = relogin[q]

\* C2: as long as no caller has forced a refresh, at most one login is in
\* flight, it is the one whose promise is stored (so later callers join it),
\* and every caller suspended on an unsettled login is suspended on that one.
C2_SingleFlightUnforced ==
  ~forcedEver =>
    /\ Cardinality(InFlight) <= 1
    /\ InFlight \subseteq {geonetClientPromise}
    /\ \A p \in Callers :
         (Waiting(p) /\ LoginInFlight(awaiting[p]))
           => awaiting[p] = geonetClientPromise
    /\ \A l \in Started : loginBy[l] # Null

\* C2 witness: a second caller arrived while the first caller's login was in
\* flight and is suspended on that same login.
C2_Witness ==
  /\ ~forcedEver
  /\ \E p \in Callers : \E q \in Callers :
       /\ pc[p] = "own" /\ pc[q] = "wait"
       /\ awaiting[p] = awaiting[q]
       /\ LoginInFlight(awaiting[p])

\* C3: fn runs at most twice per call; a second run happens only after a first
\* run that raised a session-expiry error, with the client of a login this call
\* started with forceNew; whatever the second run ends with ends the call, and
\* the call starts no login beyond the first acquisition and the forced one.
C3_AtMostOneRetry ==
  \A p \in Callers :
    /\ runs[p] <= ReloginAttempts
    /\ attempt[p] <= ReloginAttempts
    /\ (attempt[p] = 2) => (firstResult[p] = "auth" /\ runs[p] >= 1)
    /\ (attempt[p] = 2) =>
         /\ relogin[p] # Null
         /\ loginBy[relogin[p]] = p
         /\ firstClient[p] # relogin[p]
    /\ (pc[p] = "run" /\ attempt[p] = 2) => client[p] = relogin[p]
    /\ (runs[p] = 2) => (pc[p] = "done" /\ outcome[p] \in {"ok", "auth", "other"})
    /\ Cardinality(LoginsStartedBy(p)) <= 2

\* C3 witness: the second run raised a session-expiry error again and the call
\* ended with it.
C3_Witness ==
  \E p \in Callers :
    runs[p] = 2 /\ pc[p] = "done" /\ outcome[p] = "auth" /\ firstResult[p] = "auth"


\* -------------------------------------------------------------- retry claims
\* C4 (as claimed): every response whose body is parsed and used inside a
\* workflow passed the login-page heuristic, and the field set POSTed by
\* editarInstalacionGeonet was not extracted from a login page.
C4_LoginCheckBeforeUse ==
  /\ \A response \in contentUsed : ~isGeonetLoginResponse(response)
  /\ SentEver("POST editar instalacion") => ~isGeonetLoginResponse(postedBody.from)

\* C5: every activation POST carries a non-empty technician id, plan id and
\* IP; a run in which one of the three came out empty has ended the call with
\* the 404 error, its last request being the GET of the activation page (no
\* POST in that run, no further run).
C5_PostNeedsTechnicianPlanIp ==
  /\ \A c \in postedWith :
       /\ c.tecnico \notin {"", Unset}
       /\ c.plan_internet \notin {"", Unset}
       /\ c.ip \notin {"", Unset}
  /\ (technicianId = "" \/ planId = "" \/ firstAvailableIp = "") =>
       /\ wfPc = "done"
       /\ wfResult = Err(404, FALSE)
       /\ ~SentInRun("POST activacion")
       /\ sent[Len(sent)] = <<wfAttempt, "GET activacion">>

\* C5 witness: the first run POSTed and hit an expired session; the second run
\* found technician and plan but no available IP, and the call ended.
C5_Witness ==
  /\ postedWith # {}
  /\ wfAttempt = 2
  /\ technicianId = "t7" /\ planId = "p3" /\ firstAvailableIp = ""
  /\ wfPc = "done"

\* C6: every activation POST was built from a row that was read, exists and
\* has an agreedInstallationDate; a run that read a row without the date has
\* ended the call with status 400 and sent neither the csrf GET nor the POST.
C6_PostNeedsAgreedDate ==
  /\ \A c \in postedWith : c.row.read /\ c.row.exists /\ c.row.date
  /\ (request.read /\ request.exists /\ ~request.date) =>
       /\ wfPc = "done"
       /\ wfResult = Err(400, FALSE)
       /\ ~SentInRun("GET activacion (csrf)")
       /\ ~SentInRun("POST activacion")

\* C6 witness: technician, plan and IP were resolved, the row was read and has
\* no agreedInstallationDate, and the call ended.
C6_Witness ==
  /\ request.read /\ request.exists /\ ~request.date
  /\ firstAvailableIp = "10.0.0.9"
  /\ SentInRun("GET activacion")
  /\ wfPc = "done"

AttemptSettled == retryPc \in {"sleep", "returned", "thrown"} /\ lastOutcome # NoOutcome
LastWait == waits[Len(waits)]
HasRetryableStatus(o) ==
  o.kind \in {"value", "error"} /\ o.status \in {429, 502, 503, 504}
ClaimedRetryAfterMs(h) == IF h.k = "num" /\ h.n > 0 THEN h.n * 1000 ELSE 0

\* C7 (as claimed): an attempt that is not the last one is followed by a
\* further attempt exactly when it ended with status 429, 502, 503 or 504 or
\* with a thrown network error (an error carrying no response).
C7_RetriesStatusesAndNetworkErrors ==
  (AttemptSettled /\ retryAttempt < attemptsOf(callSite)) =>
    ( retryPc = "sleep"
        <=> (HasRetryableStatus(lastOutcome) \/ lastOutcome.kind = "network") )

\* C8: fn is invoked at most `attempts` times (3 by default, 6 for the login
\* GET and POST); no sleep follows the last attempt; when the last attempt
\* ended with a retryable status the call throws that attempt's error, which
\* carries the failing response; and a call that has not ended can always step.
C8_BoundedAttempts ==
  LET limit == IF callSite = "login" THEN 6 ELSE 3
  IN /\ fnCalls <= limit
     /\ fnCalls \in {retryAttempt - 1, retryAttempt}
     /\ Len(waits) <= limit - 1
     /\ (retryPc = "sleep") => (fnCalls < limit)
     /\ (AttemptSettled /\ fnCalls = limit /\ HasRetryableStatus(lastOutcome)) =>
          /\ retryPc = "thrown"
          /\ lastError.hasResponse
          /\ lastError.status = lastOutcome.status
          /\ lastError.retryAfter = lastOutcome.retryAfter
     /\ (retryPc \in {"call", "sleep"}) => ENABLED RetryStep

\* C8 witness: a login call whose six attempts all ended with 503 has thrown.
C8_Witness ==
  /\ callSite = "login" /\ retryPc = "thrown" /\ fnCalls = 6
  /\ lastOutcome.status = 503 /\ lastError.status = 503
  /\ Len(waits) = 5

\* C9: the sleep after an attempt that ended with 429 is
\* max(15000, Retry-After seconds x 1000), where a missing, non-numeric or
\* non-positive Retry-After counts as 0; so it is never below 15000 ms.
C9_RateLimitWait ==
  (retryPc = "sleep" /\ lastOutcome.status = 429) =>
    /\ LastWait = Max(15000, ClaimedRetryAfterMs(lastOutcome.retryAfter))
    /\ LastWait >= 15000
    /\ (lastOutcome.retryAfter.k # "num" \/ lastOutcome.retryAfter.n <= 15)
          => LastWait = 15000

\* C9 witness: a 429 with Retry-After: 5 is followed by a sleep of 15000 ms.
C9_Witness ==
  /\ retryPc = "sleep" /\ lastOutcome.status = 429
  /\ lastOutcome.retryAfter = [k |-> "num", n |-> 5]
  /\ LastWait = 15000

\* C10: the sleep after attempt k that ended with 502, 503 or 504 is
\* max(baseDelayMs x 2^(k-1), Retry-After seconds x 1000), with baseDelayMs
\* 1000 by default and 2000 for the login calls.
C10_BackoffWait ==
  (retryPc = "sleep" /\ lastOutcome.status \in {502, 503, 504}) =>
    LET base == IF callSite = "login" THEN 2000 ELSE 1000
        k == retryAttempt
        doubled == CASE k = 1 -> base
                     [] k = 2 -> base * 2
                     [] k = 3 -> base * 4
                     [] k = 4 -> base * 8
                     [] OTHER -> base * 16
    IN /\ k = Len(waits)
       /\ k < attemptsOf(callSite)
       /\ LastWait = Max(doubled, ClaimedRetryAfterMs(lastOutcome.retryAfter))

\* C10 witness: with the defaults and no Retry-After the two sleeps are 1000
\* and 2000 ms.
C10_Witness ==
  /\ callSite = "default" /\ retryPc = "sleep"
  /\ lastOutcome.status = 504 /\ lastOutcome.retryAfter.k = "missing"
  /\ waits = <<1000, 2000>>

\* C11 (as claimed): on the same per-attempt statuses the call and its
\* companion (every thrown status returned instead) make the same number of
\* invocations, sleep the same waits and end the same way: both return the
\* same response or both throw an error carrying the same response.
C11_SameWhetherThrownOrReturned ==
  /\ twin.fnCalls = fnCalls
  /\ twin.waits = waits
  /\ twin.pc = retryPc
  /\ (retryPc = "thrown") => twin.lastError = lastError
  /\ (retryPc = "returned") => twin.result = ResponseOf(lastOutcome)

ThrewTerminalStatus ==
  retryPc = "thrown" /\ lastError.hasResponse /\ ~isRetryableStatus(lastError.status)

\* C11 (amended): the call and its companion make the same number of
\* invocations and sleep the same waits, and their final outcomes carry the
\* same response; both throw when the attempts are exhausted on a retryable
\* status or fn threw without a response, both return when fn returned.  Only
\* a non-retryable status that fn threw ends the two differently: the call
\* throws the error, the companion returns the response.
C11_SameRetriesEitherWay ==
  /\ twin.fnCalls = fnCalls
  /\ twin.waits = waits
  /\ (retryPc \in {"call", "sleep"}) =>
       twin.pc = retryPc /\ twin.attempt = retryAttempt
  /\ (retryPc = "returned") =>
       twin.pc = "returned" /\ twin.result = ResponseOf(lastOutcome)
  /\ (retryPc = "thrown" /\ ~ThrewTerminalStatus) =>
       twin.pc = "thrown" /\ twin.lastError = lastError
  /\ ThrewTerminalStatus =>
       twin.pc = "returned" /\ twin.result = lastError

\* C11 witness: fn threw 503 three times; the call and its companion both
\* slept 1000 and 2000 ms and both threw the error carrying the 503 response.
C11_Witness ==
  /\ callSite = "default" /\ retryPc = "thrown"
  /\ lastOutcome.kind = "error" /\ lastOutcome.status = 503
  /\ waits = <<1000, 2000>> /\ twin.waits = <<1000, 2000>>
  /\ twin.pc = "thrown" /\ twin.lastError.status = 503

\* a caller's unforced getGeonetClient ran up to its first await in this step
CallsUnforced(p) == pc[p] = "idle" /\ pc'[p] # "idle"
TwentyFiveMinutesMs == 1500000

\* C12: an unforced getGeonetClient hands out the cached client, starting no
\* login and awaiting none, whenever a client is cached that was created less
\* than 25 minutes ago; when no client is cached or the cached one is 25
\* minutes old or older, it starts a login or awaits the stored login promise.
C12_FreshCacheNoLogin ==
  [][ \A p \in Callers : CallsUnforced(p) =>
        IF geonetClient # Null /\ now - geonetClientCreatedAtMs < TwentyFiveMinutesMs
        THEN /\ pc'[p] = "run"
             /\ client'[p] = geonetClient
             /\ login' = login
             /\ UNCHANGED cacheVars
        ELSE \/ /\ pc'[p] = "own"
                /\ awaiting'[p] \notin Started
                /\ login'[awaiting'[p]] \in {"get", "failed"}
             \/ /\ pc'[p] = "wait"
                /\ geonetClientPromise # Null
                /\ awaiting'[p] = geonetClientPromise
                /\ login' = login ]_vars

\* C12 witness: a caller was handed the client another caller's login had
\* cached one millisecond short of 25 minutes earlier.
C12_Witness ==
  \E p \in Callers :
    /\ pc[p] = "run"
    /\ client[p] = geonetClient
    /\ loginBy[geonetClient] # p
    /\ now - geonetClientCreatedAtMs = TwentyFiveMinutesMs - 1

\* a caller is about to start a login because the cached client is exactly 25
\* minutes old
StaleCacheLoginStarted ==
  \E p \in Callers :
    /\ pc[p] = "own"
    /\ geonetClient # Null
    /\ geonetClient # awaiting[p]
    /\ now - geonetClientCreatedAtMs = TwentyFiveMinutesMs

\* C13: a call whose login failed has ended with the login's error, did not
\* run the workflow function in that attempt and started no further login
\* (at most one per attempt); the workflow function only ever runs with a
\* client whose login succeeded; a failed login's client is never cached, and
\* the stored promise is a failed login only until the caller that started
\* it resumes, so that it is cleared by the time that call has failed.
C13_FailedLoginEndsCall ==
  /\ \A p \in Callers :
       /\ (outcome[p] = "loginError") =>
            /\ pc[p] = "done"
            /\ runs[p] = attempt[p] - 1
       /\ Cardinality(LoginsStartedBy(p)) <= attempt[p]
       /\ (pc[p] = "run") => login[client[p]] = "ok"
  /\ \A l \in LoginIds :
       (login[l] = "failed") =>
         /\ geonetClient # l
         /\ (geonetClientPromise = l) =>
              pc[loginBy[l]] = "own" /\ awaiting[loginBy[l]] = l

\* C13 witness: the first caller's login failed and its call ended without a
\* run; the cache and the stored promise were empty again, and a later
\* unforced call started a new login, which succeeded.
C13_Witness ==
  \E p \in Callers : \E q \in Callers \ {p} : \E l \in LoginIds : \E k \in LoginIds :
    /\ outcome[p] = "loginError" /\ runs[p] = 0
    /\ loginBy[l] = p /\ login[l] = "failed"
    /\ loginBy[k] = q /\ l < k /\ login[k] = "ok"
    /\ ~forcedEver
    /\ pc[q] = "run" /\ client[q] = k

\* C14: the cache only ever holds a client whose login completed
\* successfully, an empty cache has the timestamp 0, and every change of the
\* cached client either empties the cache and zeroes the timestamp or stores
\* a client whose login succeeded together with the current time.
C14_CacheWrittenOnLoginSuccess ==
  /\ [](/\ (geonetClient # Null) => login[geonetClient] = "ok"
        /\ (geonetClient = Null) => geonetClientCreatedAtMs = 0)
  /\ [][ (geonetClient' # geonetClient
            \/ geonetClientCreatedAtMs' # geonetClientCreatedAtMs) =>
           \/ geonetClient' = Null /\ geonetClientCreatedAtMs' = 0
           \/ /\ geonetClient' # Null
              /\ login[geonetClient'] = "ok"
              /\ geonetClientCreatedAtMs' = now ]_vars

\* C14 witness: a call ended on the failed login of its second attempt, after
\* a first run; the cache it had invalidated holds no client and timestamp 0.
C14_Witness ==
  \E p \in Callers :
    /\ outcome[p] = "loginError" /\ attempt[p] = 2 /\ runs[p] = 1
    /\ geonetClient = Null /\ geonetClientCreatedAtMs = 0
    /\ login[relogin[p]] = "failed"

\* C15: a run of the workflow function that threw an error which is not a
\* session-expiry error (status 400, 404, 502, or the error of an exhausted
\* or failed request) is the last thing the call did: the call ended with
\* that very error, in the same attempt, no request and no login followed.
C15_OtherErrorsPropagateAtOnce ==
  \A i \in 1..Len(fnThrew) :
    LET att == fnThrew[i][1]
        e == fnThrew[i][2]
    IN (~e.auth) =>
         /\ i = Len(fnThrew)
         /\ wfPc = "done"
         /\ wfResult = e
         /\ wfAttempt = att
         /\ Len(sent) = fnThrew[i][3]

\* C15 witness: the first run of the activation ended on the 400 of the
\* missing agreed date, after two requests, and the call ended there.
C15_Witness ==
  /\ op = "activate"
  /\ fnThrew = << <<1, Err(400, FALSE), 2>> >>
  /\ wfPc = "done" /\ wfAttempt = 1
  /\ wfResult = Err(400, FALSE)
  /\ sent = << <<1, "GET preinstalaciones">>, <<1, "GET activacion">> >>

\* C16: an activation call that resolved no InstallationRequest (the given id
\* has no row, or the name lookup matched none) has ended with the 404 error
\* without having logged in or sent any portal request; and a call that ended
\* before any request did so with 404 exactly when no row was matched.
C16_NoRecordNoPortalCall ==
  LET matched == dbRecord.exists /\ (params.idGiven \/ params.nameMatches)
  IN /\ (op = "activate" /\ wfPc # "start" /\ ~resolvedRequest) =>
          /\ wfPc = "done"
          /\ wfResult = Err(404, FALSE)
          /\ sent = <<>>
          /\ fnThrew = <<>>
     /\ (op = "activate" /\ wfPc = "done" /\ sent = <<>>) =>
          (wfResult = Err(404, FALSE) <=> ~matched)

\* C16 witness: an explicit id was given, no row has it, and the call ended
\* with 404 before any request.
C16_Witness ==
  /\ op = "activate" /\ wfPc = "done"
  /\ params.idGiven /\ ~dbRecord.exists
  /\ wfResult = Err(404, FALSE)
  /\ sent = <<>>

\* the portal answered the activation POST with the form and its error list
ActivationFormRejected ==
  /\ op = "activate"
  /\ wfPc = "done"
  /\ wfResult.kind = "ok"
  /\ parseDjangoFormErrors(postAnswer).errorTexts # {}

\* C17 (as claimed): when the portal answers the activation POST by rendering
\* the form again with error-list markup, the result of the operation carries
\* the extracted error messages and the required-but-empty fields.
C17_ActivationReportsFormErrors ==
  ActivationFormRejected =>
    /\ wfReport.reported
    /\ wfReport.formErrors = parseDjangoFormErrors(postAnswer).errorTexts
    /\ wfReport.missingRequiredFields =
         parseDjangoFormErrors(postAnswer).missingRequired



\* ------------------------------------------------------------------------ C18
PostLabels == {"POST activacion", "POST crear ticket", "POST eliminar ticket",
               "POST eliminar instalacion", "POST editar instalacion"}
PostsMade == {i \in 1..Len(sent) : sent[i][2] \in PostLabels}
\* the POST was answered with a status that is not retried and the form
\* rendered again with its error list
ValidationErrorAnswer ==
  /\ postAnswer # NoResp
  /\ postAnswer # Thrown
  /\ postAnswer.status \notin {429, 502, 503, 504}
  /\ postAnswer.isString
  /\ "<form" \in postAnswer.marks
  /\ "errorlist" \in postAnswer.marks

\* C18, as claimed: when a workflow POST is answered with a non-retryable
\* status and the form rendered again with validation errors, exactly one POST
\* is made in that workflow call.
C18_ExactlyOnePost ==
  ValidationErrorAnswer => Cardinality(PostsMade) = 1

\* C18, amended: once a workflow POST is answered with a non-retryable status
\* and the form rendered again with validation errors, that workflow call
\* sends no further POST and starts no further attempt; POSTs of the same call
\* made before it (answered with a login redirect, before the one re-login)
\* may precede it.
C18_NoPostAfterValidationErrors ==
  [][ValidationErrorAnswer =>
       /\ wfAttempt' = wfAttempt
       /\ Len(sent') > Len(sent) => sent'[Len(sent')][2] \notin PostLabels
       /\ postAnswer' = postAnswer]_vars

\* a call whose second attempt's POST was answered with validation errors,
\* after the first attempt's POST met the login redirect
C18_Witness ==
  /\ wfPc = "done"
  /\ ValidationErrorAnswer
  /\ wfResult = Returned(200)
  /\ wfAttempt = 2
  /\ Cardinality(PostsMade) = 2
  /\ sent[Len(sent)][2] \in PostLabels

\* ----------------------------------------------------------- snapshot claims
\* the controls the snapshot is to hold: named inputs other than submit,
\* button, file and unchecked checkbox / radio, named textareas, named selects
IsCheckable(c) == c.tag = "input" /\ ToLowerCase(OrEmpty(c.type)) \in {"checkbox", "radio"}
LeftOut(c) ==
  /\ c.tag = "input"
  /\ \/ ToLowerCase(OrEmpty(c.type)) \in {"submit", "button", "file"}
     \/ IsCheckable(c) /\ ~c.checked
ToBeHeld(c) == c.name # "" /\ ~LeftOut(c)
SelectedOptions(c) == {i \in DOMAIN c.options : c.options[i].selected}
NonPlaceholderOptions(c) ==
  {i \in DOMAIN c.options : /\ c.options[i].value # ""
                            /\ ~IncludesDashes(c.options[i].text)}
\* the control's value is empty or missing; for a select: neither its selected
\* option nor any option without the placeholder dashes has a value
EmptyValued(c) ==
  IF c.tag = "select"
  THEN /\ \A i \in SelectedOptions(c) : c.options[i].value = ""
       /\ NonPlaceholderOptions(c) = {}
  ELSE OrEmpty(c.value) = ""
OnlyOfItsName(i) ==
  \A j \in DOMAIN formEl : formEl[j].name = formEl[i].name => j = i

\* C19, as claimed: the snapshot has an entry for every named input (other
\* than submit, button, file and unchecked checkbox / radio), every named
\* textarea and every named select of the form, and a control whose value is
\* empty or missing is held as the empty string.
C19_SnapshotHoldsEveryField ==
  snapshotBy # "none" =>
    \A i \in DOMAIN formEl :
      ToBeHeld(formEl[i]) =>
        /\ formEl[i].name \in DOMAIN snapshot.val
        /\ EmptyValued(formEl[i]) /\ OnlyOfItsName(i)
             => snapshot.val[formEl[i].name] = ""

\* C20, as claimed: the snapshot holds no name that only unchecked checkboxes
\* or radios or submit, button or file inputs carry; a checked checkbox is
\* held; a select with a selected option is held with that option's value,
\* otherwise with the value of the first option that has a non-empty value
\* and whose text lacks the placeholder dashes.
C20_SnapshotContents ==
  snapshotBy # "none" =>
    /\ \A n \in DOMAIN snapshot.val :
         \E i \in DOMAIN formEl : formEl[i].name = n /\ ~LeftOut(formEl[i])
    /\ \A i \in DOMAIN formEl :
         /\ IsCheckable(formEl[i]) /\ formEl[i].checked /\ formEl[i].name # ""
              => formEl[i].name \in DOMAIN snapshot.val
         /\ formEl[i].tag = "select" /\ OnlyOfItsName(i) =>
              IF SelectedOptions(formEl[i]) # {}
              THEN /\ formEl[i].name \in DOMAIN snapshot.val
                   /\ snapshot.val[formEl[i].name] =
                        formEl[i].options[MinOf(SelectedOptions(formEl[i]))].value
              ELSE NonPlaceholderOptions(formEl[i]) # {} =>
                   /\ formEl[i].name \in DOMAIN snapshot.val
                   /\ snapshot.val[formEl[i].name] =
                        formEl[i].options[MinOf(NonPlaceholderOptions(formEl[i]))].value

\* ------------------------------------------------------------ merge claims
\* the field an update key is written to
TargetOf(k) == FieldNameFor(mapUpdateToField(freshFields, freshFields.keys, k), k)
\* the same for each key of the updates, in their order
TargetsOf(upd) == [i \in DOMAIN upd.keys |-> TargetOf(upd.keys[i])] \o <<>>
\* what the form is to hold for an update value
Submitted(v) == IF v.t = "null" THEN <<>> ELSE v.s
\* the positions of the update keys that have a name and a defined value
Defined(upd) ==
  {i \in DOMAIN upd.keys : upd.keys[i] # <<>> /\ upd.val[upd.keys[i]].t # "undefined"}
\* no later update key is written to the same field
LastFor(upd, target, i) == \A j \in Defined(upd) : j > i => target[j] # target[i]
FieldSet(upd, target, i) ==
  /\ Has(sentFields, target[i])
  /\ sentFields.val[target[i]] = Submitted(upd.val[upd.keys[i]])
Posted(f) == \E n \in DOMAIN sentForm : sentForm[n] = <<f, sentFields.val[f]>>
\* the fields that no update key is written to are posted as the page gave them
FrameKept(written) ==
  /\ DOMAIN sentFields.val = DOMAIN freshFields.val \cup written
  /\ Len(sentForm) = Cardinality(DOMAIN sentFields.val)
  /\ \A f \in DOMAIN sentFields.val : Posted(f)
  /\ \A f \in DOMAIN freshFields.val \ (written \cup {K_csrfmiddlewaretoken}) :
       sentFields.val[f] = freshFields.val[f]
EachKeySets(upd, target) ==
  /\ \A i \in Defined(upd) : FieldSet(upd, target, i)
  /\ FrameKept({target[i] : i \in Defined(upd)})
LastKeySets(upd, target) ==
  /\ \A i \in Defined(upd) :
       LastFor(upd, target, i) /\ target[i] # K_csrfmiddlewaretoken
         => FieldSet(upd, target, i)
  /\ FrameKept({target[i] : i \in Defined(upd)})
WithoutToken(upd) == Delete(upd, K_csrfmiddlewaretoken)

\* C21 (as claimed): once the form is built, the field of every update key the
\* caller gave with a defined value holds '' for null and the stringified value
\* otherwise, and every other field of the snapshot but the token is posted with
\* its snapshot value.
C21_EachKeySetsItsField ==
  mergePc \in {"posted", "again"} =>
    EachKeySets(WithoutToken(givenUpdates), TargetsOf(WithoutToken(givenUpdates)))

\* C21 (amended): the updates are those left once a technician given by name
\* has been resolved into "tecnico" and fecha_inicio and fecha_final have been
\* converted; of the keys written to one field the last one decides. The field
\* of such a key, unless it is the token's, holds '' for null and the
\* stringified value otherwise, keys whose value is undefined write nothing,
\* and every other field of the snapshot but the token is posted with its
\* snapshot value.
C21_LastKeySetsItsField ==
  mergePc \in {"posted", "again"} => LastKeySets(safeUpdates, TargetsOf(safeUpdates))
NullWritten(upd, target) ==
  \E i \in Defined(upd) : /\ upd.val[upd.keys[i]] = JsNull
                          /\ Has(freshFields, target[i])
                          /\ sentFields.val[target[i]] = <<>>
OneKept(target) ==
  \E f \in DOMAIN freshFields.val \ {K_csrfmiddlewaretoken} :
    /\ \A i \in DOMAIN target : target[i] # f
    /\ sentFields.val[f] = OldValue
C21_Witness ==
  /\ mergePc = "posted"
  /\ \E i \in DOMAIN safeUpdates.keys :
       safeUpdates.val[safeUpdates.keys[i]] = JsUndefined
  /\ NullWritten(safeUpdates, TargetsOf(safeUpdates))
  /\ OneKept(TargetsOf(safeUpdates))

\* C22: merging the updates {} leaves the snapshot as it was (the form posted
\* for no updates is the reloaded field set), hence merging {} onto the result
\* of any merge changes nothing.
C22_EmptyUpdateKeepsSnapshot ==
  /\ mergePc \in {"posted", "again"} /\ safeUpdates = EmptyObject
       => sentFields = freshFields
  /\ mergePc = "again" => againFields = sentFields

\* the fields of the snapshot a heuristic looks for
TecnicoFields == {f \in DOMAIN freshFields.val : includes(normalizeKey(f), W_tecnico)}
InstalFields == {f \in DOMAIN freshFields.val : includes(Squeezed(f), W_instal)}
FechaInstalFields == {f \in InstalFields : includes(Squeezed(f), F_fecha)}
FechaFields ==
  {f \in DOMAIN freshFields.val :
     includes(normalizeKey(f), F_fecha) \/ includes(normalizeKey(f), W_date)}
CloseFields(norm) ==
  {f \in DOMAIN freshFields.val :
     AtLeast(calculateSimilarityScore(norm, Squeezed(f)), Frac(1, 2))}
\* which rule is the first to apply to a key with this normalized form
RuleFor(k, norm) ==
  IF Has(freshFields, k) THEN "exact"
  ELSE IF (includes(norm, W_tecnico) \/ includes(norm, W_technician))
          /\ TecnicoFields # {} THEN "tecnico"
  ELSE IF (includes(norm, W_inicio) \/ includes(norm, W_instal))
          /\ InstalFields # {} THEN "instal"
  ELSE IF (includes(norm, F_fecha) \/ includes(norm, W_date))
          /\ FechaInstalFields \cup FechaFields # {} THEN "fecha"
  ELSE IF CloseFields(norm) # {} THEN "fuzzy"
  ELSE "literal"
\* the fields a rule allows for the key
AllowedBy(rule, k, norm) ==
  CASE rule = "exact" -> {k}
    [] rule = "tecnico" -> TecnicoFields
    [] rule = "instal" -> InstalFields
    [] rule = "fecha" -> IF FechaInstalFields # {} THEN FechaInstalFields ELSE FechaFields
    [] rule = "fuzzy" ->
         {f \in CloseFields(norm) :
            \A g \in DOMAIN freshFields.val :
              AtLeast(calculateSimilarityScore(norm, Squeezed(f)),
                      calculateSimilarityScore(norm, Squeezed(g)))}
    [] rule = "literal" -> {k}
RuleOf(upd, i) == RuleFor(upd.keys[i], Squeezed(upd.keys[i]))
ResolvedInOrder(upd, target, i) ==
  /\ target[i] \in AllowedBy(RuleOf(upd, i), upd.keys[i], Squeezed(upd.keys[i]))
  /\ RuleOf(upd, i) = "literal" =>
       /\ ~Has(freshFields, upd.keys[i])
       /\ Has(sentFields, upd.keys[i])
       /\ Posted(upd.keys[i])
       /\ LastFor(upd, target, i) => FieldSet(upd, target, i)
AllResolvedInOrder(upd, target) ==
  \A i \in Defined(upd) : ResolvedInOrder(upd, target, i)

\* C23: each update key that is merged is written to the field the first
\* applicable rule gives, in the order exact name, technician, installation,
\* date, best fuzzy match of at least 0.5; a key no rule applies to becomes a
\* new field of the POST body under its own name.
C23_RulesInOrder ==
  mergePc = "posted" =>
    AllResolvedInOrder(safeUpdates, TargetsOf(safeUpdates))
RulesSeen(upd) == {RuleOf(upd, i) : i \in Defined(upd)}
C23_Witness ==
  /\ mergePc = "posted"
  /\ RulesSeen(safeUpdates) \in
       {{"exact", "literal"}, {"tecnico", "fuzzy"}, {"instal", "literal"},
        {"fecha", "fuzzy"}}

MentionsFechaInstal(k) ==
  /\ includes(Squeezed(k), F_fecha) \/ includes(Squeezed(k), W_date)
  /\ includes(Squeezed(k), W_instal)
PrefersFechaInstal(upd, target) ==
  \A i \in Defined(upd) :
    (/\ MentionsFechaInstal(upd.keys[i])
     /\ ~Has(freshFields, upd.keys[i])
     /\ FechaInstalFields # {}) => target[i] \in FechaInstalFields

\* C24: an update key that mentions fecha/date and instal, and is no field
\* name, is mapped to a field whose name contains both fecha and instal
\* whenever the form has one, whatever the order of the fields.
C24_FechaInstalPreferred ==
  mergePc = "posted" => PrefersFechaInstal(safeUpdates, TargetsOf(safeUpdates))

\* ------------------------------------------------------------ resolution claims
\* the values of the options with this label
ValuesLabelled(options, label) ==
  {options[i].value : i \in {j \in DOMAIN options : options[j].text = label}}

\* C25: the zone hint "Villa Maule - Z201" resolves to the option labelled
\* "Villa Maule - Zona 201 - Vlan 201" whenever the select has it, whatever the
\* other options score: a known renaming is looked up before any fuzzy match.
C25_RenamingBeforeFuzzy ==
  (/\ resolvePc = "ap"
   /\ optName = N_zona
   /\ ValuesLabelled(optSelect, T_zona_vlan) # {})
  => chosen["zona"] \in ValuesLabelled(optSelect, T_zona_vlan)

\* the first option that has the property, if any
IsFirst(options, i, Is(_)) ==
  /\ i \in DOMAIN options
  /\ Is(options[i])
  /\ \A j \in 1..(i - 1) : ~Is(options[j])
IsSelected(o) == o.selected
HasDashes(t) == \E k \in 1..(Len(t) - 8) : \A d \in 0..8 : t[k + d] = "-"
IsOffered(o) == o.value # <<>> /\ ~HasDashes(o.text)
\* v is the selected option's value, else the first non-placeholder option's
IsDefaultOf(options, v) ==
  IF \E i \in DOMAIN options : IsFirst(options, i, IsSelected) /\ options[i].value # <<>>
  THEN \E i \in DOMAIN options : IsFirst(options, i, IsSelected) /\ v = options[i].value
  ELSE IF \E i \in DOMAIN options : IsOffered(options[i])
  THEN \E i \in DOMAIN options : IsFirst(options, i, IsOffered) /\ v = options[i].value
  ELSE v = <<>>
NameMatches(options, name) == name # <<>> /\ findOptionId(options, name) # <<>>
DefaultedRoles == {"router", "zona", "ap"}
JustResolved ==
  CASE resolvePc = "zona" -> "router"
    [] resolvePc = "ap" -> "zona"
    [] resolvePc = "post" -> "ap"
    [] OTHER -> "none"

\* C26: a zone, router or AP whose hint is absent or matches no option takes
\* the select's selected value, else its first non-placeholder value, and the
\* call goes on; a technician or plan that resolves to no option ends the call
\* with an error before any POST.
C26_DefaultsNeverFailRequiredDo ==
  /\ JustResolved \in DefaultedRoles =>
       /\ resolveError = 0
       /\ ~NameMatches(optSelect, optName) =>
            IsDefaultOf(optSelect, chosen[JustResolved])
       /\ NameMatches(optSelect, optName) =>
            chosen[JustResolved] = findOptionId(optSelect, optName)
  /\ resolvePc \in {"router", "zona", "ap", "post", "posted"} =>
       chosen["tecnico"] # <<>> /\ chosen["plan"] # <<>> /\ resolveError = 0
  /\ resolvePc = "failed" =>
       /\ chosen["tecnico"] = <<>> \/ chosen["plan"] = <<>>
       /\ resolveError = 404
       /\ resolvePosts = 0
  /\ resolvePosts > 0 => resolvePc = "posted"
\* an AP hint that matches nothing, a selected placeholder without a value, and
\* the first option without dashes taken
C26_Witness ==
  /\ resolvePc = "post"
  /\ optName = N_zz
  /\ optSelect = <<PlaceholderSelected, DashedRb, Rb>>
  /\ chosen["ap"] = Rb.value
\* a technician that resolves to no option has ended the call
C26_WitnessFailed ==
  /\ resolvePc = "failed"
  /\ chosen["tecnico"] = <<>>

\* t occurs in c as a substring
Contains(c, t) ==
  \E k \in 0..(Len(c) - Len(t)) : \A i \in 1..Len(t) : c[k + i] = t[i]
\* the words of a text: its pieces between white space
WordsOf(text) ==
  {SubSeq(text, i, j) : <<i, j>> \in
     {w \in (DOMAIN text) \X (DOMAIN text) :
        /\ w[1] <= w[2]
        /\ \A k \in w[1]..w[2] : ~IsSpace(text[k])
        /\ w[1] = 1 \/ IsSpace(text[w[1] - 1])
        /\ w[2] = Len(text) \/ IsSpace(text[w[2] + 1])}}
IsRatio(score, n, d) == score.ulp = 0 /\ score.num * d = n * score.den
ScoreAsSpecified(target, candidate, score) ==
  /\ target = <<>> \/ candidate = <<>> => IsRatio(score, 0, 1)
  /\ target # <<>> /\ target = candidate => IsRatio(score, 1, 1)
  /\ target # <<>> /\ candidate # <<>> /\ Contains(candidate, target) =>
       IsRatio(score, 1, 1)
  /\ target # <<>> /\ candidate # <<>> /\ ~Contains(candidate, target) =>
       IsRatio(score, Cardinality(WordsOf(target) \cap WordsOf(candidate)),
               Cardinality(WordsOf(target) \cup WordsOf(candidate)))
  /\ score.den > 0 /\ 0 <= score.num /\ score.num <= score.den

\* C27: the similarity score of normalized texts is 0 when either is empty, 1
\* for a non-empty text and itself, 1 when the candidate contains the target,
\* and otherwise the shared words over all words of the two; it lies in [0, 1].
C27_ScoreAsSpecified ==
  resolvePc = "scored" => ScoreAsSpecified(scored.target, scored.candidate, scored.score)
\* a score strictly between 0 and 1: two of three words shared
C27_Witness ==
  /\ resolvePc = "scored"
  /\ scored.target = normalizeText(N_perez_juan)
  /\ scored.candidate = normalizeText(T_juan_perez_soto)
  /\ IsRatio(scored.score, 2, 3)

\* the two targets of a reordering, as findOptionId normalizes them
FirstTarget == normalizeText(Join(reordered.tokens))
SecondTarget == normalizeText(Join(Permuted(reordered.tokens, reordered.order)))
MailTokens == {i \in DOMAIN reordered.tokens : Contains(reordered.tokens[i], <<"@">>)}
\* the option scores the same for both orders: it contains both targets or
\* neither, or it is made of exactly their words
SameForBoth(o) ==
  \/ Contains(normalizeText(o.text), FirstTarget)
       <=> Contains(normalizeText(o.text), SecondTarget)
  \/ WordsOf(normalizeText(o.text)) = WordsOf(FirstTarget)
ContainmentAgrees ==
  \A i \in DOMAIN reordered.options :
    reordered.options[i].value # <<>> => SameForBoth(reordered.options[i])
IsJuanPerezExample ==
  /\ reordered.options = <<JuanPerez, MariaLopez>>
  /\ Permuted(reordered.tokens, reordered.order) = <<N_perez, N_juan>>

\* C28 as stated: the same tokens in any order resolve to the same option.
C28_OrderInvariant ==
  resolvePc = "reordered" => reordered.first = reordered.second
\* C28: the same tokens in another order resolve to the same option when at
\* most one token holds an '@' and every option with a value contains both
\* targets or neither, or is made of exactly their words; "perez juan" gives
\* "1" among Juan Perez = 1 and Maria Lopez = 2.
C28_OrderInvariantButContainment ==
  resolvePc = "reordered" =>
    /\ Cardinality(MailTokens) <= 1 /\ ContainmentAgrees =>
         reordered.first = reordered.second
    /\ IsJuanPerezExample => reordered.second = JuanPerez.value
C28_Witness ==
  /\ resolvePc = "reordered"
  /\ IsJuanPerezExample
  /\ reordered.tokens = <<N_juan, N_perez>>
  /\ ContainmentAgrees
  /\ reordered.first = JuanPerez.value
  /\ reordered.second = JuanPerez.value

\* ------------------------------------------------------------ activation plan
ResolvesRecord == op = "activate" /\ wfPc = "start" /\ wfPc' # "start"

\* C30 as stated: a plan name given by the caller is the one the plan option
\* is resolved from.
C30_CallerPlanOverrides ==
  [][ResolvesRecord /\ params.planName # "" => effectivePlanName' = params.planName]_vars
\* C30: the plan option is resolved from the plan of the installation record
\* when the record has one, and from the caller's planName only otherwise.
C30_RecordPlanOverrides ==
  [][/\ ResolvesRecord =>
          effectivePlanName' =
            IF resolvedRequest' /\ dbRecord.plan # "" THEN dbRecord.plan
            ELSE params.planName
     /\ op = "activate" /\ wfPc # "start" => effectivePlanName' = effectivePlanName]_vars
\* the caller gave a plan name, the record holds another, and the plan option
\* was resolved from the record's
C30_Witness ==
  /\ op = "activate"
  /\ params.planName # ""
  /\ dbRecord.plan # ""
  /\ dbRecord.plan # params.planName
  /\ effectivePlanName = dbRecord.plan
  /\ planId \notin {Unset, ""}

\* ------------------------------------------------------------ ticket fallback
PutFieldNames ==
  {"asuntos_default", "asunto", "tecnico", "descripcion", "estado", "prioridad",
   "servicio", "fecha_inicio", "fecha_final", "origen_reporte", "departamento",
   "email_tecnico"}
ReferenceFields ==
  {"asuntos_default", "asunto", "tecnico", "estado", "prioridad", "servicio",
   "origen_reporte", "departamento"}
AliasOf(f) ==
  CASE f = "asuntos_default" -> "asuntosDefault"
    [] f = "fecha_inicio" -> "fechaInicio"
    [] f = "fecha_final" -> "fechaFinal"
    [] f = "origen_reporte" -> "origenReporte"
    [] f = "email_tecnico" -> "emailTecnico"
    [] OTHER -> f
\* the caller's updates hold a value for the field, under either spelling
NamedIn(updates, f) == Given(updates, f) \/ Given(updates, AliasOf(f))
\* the field as the current ticket holds it
CurrentOf(f) == Coalesce(Get(current, f), Get(current, AliasOf(f)))
Sends(f) == \E i \in DOMAIN putForm : putForm[i][1] = f
SentText(f) == putForm[CHOOSE i \in DOMAIN putForm : putForm[i][1] = f][2]
PutAfterPatch ==
  \E i \in DOMAIN tkRequests : \E j \in DOMAIN tkRequests :
    i < j /\ tkRequests[i] = "PATCH" /\ tkRequests[j] = "PUT"
\* the PATCH was rejected, or may have ignored a field
PatchInDoubt ==
  \/ patchStatus = 405
  \/ /\ Is2xx(patchStatus)
     /\ \E f \in {"estado", "fecha_inicio", "fecha_final"} : NamedIn(tkGiven, f)
\* the current ticket is asked for right after the PATCH
FetchAfterPatch ==
  \E i \in DOMAIN tkRequests :
    i < Len(tkRequests) /\ tkRequests[i] = "PATCH" /\ tkRequests[i + 1] = "GET"
PutWheneverInDoubt ==
  tkPc = "done" /\ patchStatus # 0 /\ PatchInDoubt =>
    /\ FetchAfterPatch
    /\ current # EmptyObject => PutAfterPatch /\ tkResult.method = "PUT"
\* the value of the current ticket as one text: an object is its id
PlainText(v) == IF v.t = "object" THEN v.s ELSE trim(TextOf(v))
KeepsValue(f) ==
  IF IsNullish(CurrentOf(f)) THEN ~Sends(f)
  ELSE Sends(f) /\ SentText(f) = PlainText(CurrentOf(f))

InferredMail(f) ==
  /\ f = "email_tecnico"
  /\ Has(tkUpdates, "email_tecnico")
  /\ ~Has(tkGiven, "email_tecnico")
\* a text, a number, or for a reference field an object with an id
Covered(f) ==
  LET cur == CurrentOf(f)
  IN IF cur.t = "object" THEN f \in ReferenceFields /\ cur.s # <<>> ELSE TRUE
HoldsNoValue(f) ==
  \/ IsNullish(CurrentOf(f))
  \/ PlainText(CurrentOf(f)) = <<>>
  \/ toLowerCase(PlainText(CurrentOf(f))) \in {NullText, UndefinedText}
\* 'YYYY-MM-DDThh:mm:ss' as 'YYYY-MM-DD hh:mm:ss'
AsPlainDateTime(text) ==
  IF Len(text) >= 11 /\ text[11] = "T"
  THEN [i \in DOMAIN text |-> IF i = 11 THEN " " ELSE text[i]] \o <<>>
  ELSE text
\* the value of the choice whose label the text is, when no choice has the
\* text as its value
AsChoiceValue(f, text) ==
  LET choices == ChoicesOf(optionChoices, f)
      labelled == {i \in DOMAIN choices :
                     /\ choices[i].label # <<>>
                     /\ normalizeText(choices[i].label) = normalizeText(text)}
  IN IF \E i \in DOMAIN choices : TextOf(choices[i].value) = text THEN text
     ELSE IF labelled = {} THEN text
     ELSE TextOf(choices[MinOf(labelled)].value)
StaffIds == {staff.id : staff \in Staffs \ {NoStaff}}
SendsAcceptedForm(f) ==
  LET text == PlainText(CurrentOf(f))
  IN IF HoldsNoValue(f) THEN ~Sends(f)
     ELSE /\ Sends(f)
          /\ IF f \in {"fecha_inicio", "fecha_final"}
             THEN SentText(f) = AsPlainDateTime(text)
             ELSE IF f = "tecnico" /\ ~IsDigits(text)
             THEN SentText(f) \in {text} \cup StaffIds
             ELSE SentText(f) = AsChoiceValue(f, text)

ReloadedToken == Get(freshFields, K_csrfmiddlewaretoken)
PostedToken == Get(sentFields, K_csrfmiddlewaretoken)

\* C31: after a successful reload the POST carries the reloaded page's token,
\* in the csrfmiddlewaretoken field and in the X-CSRFToken header.
C31_PostCarriesReloadedToken ==
  mergePc = "posted" => PostedToken = ReloadedToken /\ XCsrfTokenHeader = ReloadedToken

\* the updates name the token, or a key that maps onto its field
NamesToken(upd) ==
  \E i \in DOMAIN upd.keys :
    /\ upd.val[upd.keys[i]].t # "undefined"
    /\ \/ upd.keys[i] = K_csrfmiddlewaretoken
       \/ Squeezed(upd.keys[i]) = K_csrfmiddlewaretoken
\* C32: the POSTed csrfmiddlewaretoken is a token scraped from the fetched
\* pages whatever the updates are, and it appears once in the body.
C32_TokenIndependentOfUpdates ==
  mergePc = "posted" =>
    /\ PostedToken \in {FirstCsrf, ReloadedToken}
    /\ Cardinality({i \in DOMAIN sentForm : sentForm[i][1] = K_csrfmiddlewaretoken}) = 1
\* updates that name the token twice, by its key and by a key that maps onto
\* its field, and the token of the first page posted
C32_Witness ==
  /\ mergePc = "posted"
  /\ Has(givenUpdates, K_csrfmiddlewaretoken)
  /\ Has(givenUpdates, K_csrf_separated)
  /\ NamesToken(givenUpdates)
  /\ \A k \in DOMAIN givenUpdates.val : givenUpdates.val[k].t \notin {"undefined", "null"}
  /\ PostedToken = FirstCsrf

\* ------------------------------------------------------------ stored requests and files
CreateRequestDone == fileOp = "createRequest" /\ filePc = "done"
WisphubRequestFailed ==
  \/ wisphubCall = "answered" /\ wisphubResult.status >= 400
  \/ wisphubCall = "threw"

\* C33: the request is stored only if Wisphub answered with a status below
\* 400; when the Wisphub request fails (status >= 400, or it throws without a
\* response) nothing is stored and createRequest throws.
C33_StoredOnlyAfterWisphubOk ==
  CreateRequestDone =>
    /\ stored => wisphubCall = "answered" /\ wisphubResult.status < 400
    /\ WisphubRequestFailed => ~stored /\ fileResult.kind = "threw"

\* the file is gone, or deleteFile was called for it and threw
DeletedOrTried(f) ==
  f \notin uploads \/ (f \in unlinkFails /\ f \in RangeOf(deleteCalls))
C34_WitnessAcrossRelogin ==
  /\ fileOp = "crearTicket"
  /\ filePc = "done"
  /\ staged = TicketFiles
  /\ unlinkFails = {TicketFile(1)}
  /\ uploads = {TicketFile(1)}
  /\ fileResult = ReturnedStatus(200)

\* ------------------------------------------------------------ retryable results
RetryableStatuses == {429, 502, 503, 504}
\* C35: withRetry never returns a result with status 429, 502, 503 or 504
\* (throwIfRetryableStatus finds nothing to throw on what it returns); an
\* attempt that settles with such a status, returned or thrown, ends in the
\* catch block with an error that carries it.
C35_RetryableNeverReturned ==
  /\ retryPc = "returned" =>
       /\ lastOutcome.status \notin RetryableStatuses
       /\ throwIfRetryableStatus(lastOutcome) = NoErr
  /\ /\ AttemptSettled
     /\ lastOutcome.kind \in {"value", "error"}
     /\ lastOutcome.status \in RetryableStatuses
     => /\ retryPc \in {"sleep", "thrown"}
        /\ lastError.hasResponse
        /\ lastError.status = lastOutcome.status
\* a result is returned after an attempt that was retried
C35_Witness ==
  /\ retryPc = "returned"
  /\ waits # <<>>
  /\ fnCalls >= 2
  /\ lastOutcome.kind = "value"
  /\ lastOutcome.status = 200

\* ------------------------------------------------------------ overlapping logins
\* C36: when a login was started while an earlier one was in flight, the
\* client of the later login, once cached, is never replaced by the client of
\* the earlier one.
C36_LaterLoginStaysCached ==
  [][\A l \in LoginIds : \A m \in LoginIds :
       <<l, m>> \in overlaps /\ geonetClient = m => geonetClient' # l]_vars

\* ------------------------------------------------------------ technician by name
\* the caller gave a technician's name
NameGiven == ~Falsey(techNameOf(givenUpdates))
\* the name was resolved: safeUpdates.tecnico is an id the lookups gave
ResolvedIds == (WisphubIds \ {<<>>}) \cup {techSelect[i].value : i \in DOMAIN techSelect}
NameResolved ==
  /\ NameGiven
  /\ Get(safeUpdates, W_tecnico).t = "string"
  /\ Get(safeUpdates, W_tecnico).s \in ResolvedIds \ {<<>>}
\* the technician field of the form: the page's, else the one the POST adds
TechnicianField == IF Has(freshFields, F_id_tecnico) THEN F_id_tecnico ELSE W_tecnico

\* C37: when tecnicoName is given and resolved, the technician field of the
\* POST holds the resolved id, whatever the other keys and their order.
C37_ResolvedIdPosted ==
  mergePc = "posted" /\ NameResolved =>
    /\ Has(sentFields, TechnicianField)
    /\ sentFields.val[TechnicianField] = Get(safeUpdates, W_tecnico).s

\* ------------------------------------------------------------ one loader at a time
\* the call of fromCache by p
CallBy(p) == odbPc[p] = "idle" /\ odbPc'[p] # "idle"
InFlightLoaders == {id \in LoaderIds : loaderState[id] = "running"}
InvokesLoader == \E id \in LoaderIds : loaderState[id] = "none" /\ loaderState'[id] # "none"
UnexpiredValueCached == smartoltCache.present /\ smartoltCache.expires > odbNow
RejectsNow(id) == loaderState[id] = "running" /\ loaderState'[id] = "rejected"
\* the callers whose call was given the promise of loader call id
WaitersOf(id) == {p \in OdbCallers : odbAwait[p] = id}

\* C38: at most one loader is in flight whatever the interleaving of the calls;
\* a call made while an unexpired value is cached returns that value and invokes
\* no loader; a loader that rejects leaves no entry, every caller that waited for
\* it gets the rejection, and a call that finds no entry invokes the loader
C38_SingleFlight ==
  /\ [](/\ Cardinality(InFlightLoaders) <= 1
        /\ \A p \in OdbCallers :
             odbPc[p] = "done" /\ odbAwait[p] # NoLoader
             /\ loaderState[odbAwait[p]] = "rejected"
             => odbGot[p] = Rejection(odbAwait[p]))
  /\ [][/\ \A p \in OdbCallers :
             CallBy(p) /\ UnexpiredValueCached
             => ~InvokesLoader /\ odbPc'[p] = "done" /\ odbGot'[p] = smartoltCache.value
        /\ \A id \in LoaderIds : RejectsNow(id) => ~smartoltCache'.present
        /\ \A p \in OdbCallers : CallBy(p) /\ ~smartoltCache.present => InvokesLoader]_vars
\* two callers waited for the first loader call and got its rejection, the next
\* call invoked the loader again, and a fourth call was served its cached value
C38_Witness ==
  /\ \E p, q \in OdbCallers :
       /\ p # q
       /\ WaitersOf(1) = {p, q}
       /\ odbGot[p] = Rejection(1) /\ odbGot[q] = Rejection(1)
  /\ \E r, c \in OdbCallers :
       /\ WaitersOf(2) = {r}
       /\ odbGot[r] = OdbList(2)
       /\ odbAwait[c] = NoLoader /\ odbGot[c] = OdbList(2)

\* ------------------------------------------------------------ failed ODB requests
\* C39: once the upstream request of fetchOdbs has failed, the next call of
\* getOdbs invokes fetchOdbs again (or waits for a request already in flight)
\* and is not served a cached result
C39_FailedFetchNotCached ==
  [][\A p \in OdbCallers :
       CallBy(p) /\ loaderIs = "fetchOdbs" /\ lastUpstream = "failed"
       /\ InFlightLoaders = {}
       => InvokesLoader]_vars

=============================================================================
